---- MODULE Spec2Model ----
(***************************************************************************)
(* PathFinder academic dashboard: the curriculum catalogue and progress    *)
(* engine (backend/app/catalog, backend/app/routes/catalogue.py), the      *)
(* prerequisite-weighted success prediction service                        *)
(* (backend/app/services/subject_prediction_service.py) and the classifier *)
(* adapter (backend/app/services/ml_prediction_service.py).                *)
(*                                                                         *)
(* Conventions.                                                            *)
(*  - A variant key "{intake}-{entry_type}" is the pair <<intake, entry>>: *)
(*    the built keys hold exactly one '-', so the formatting is injective  *)
(*    on every pair that can equal a built key.                            *)
(*  - Python floats are exact rationals [n |-> , d |-> ] in lowest terms;  *)
(*    where IEEE-754 rounding decides a comparison the model says so.      *)
(*  - Python's None is the string "None" where a plain value is optional, *)
(*    and a record whose flag or kind field says so where an object is     *)
(*    optional; an ordered dict is a sequence of <<key, value>> pairs in   *)
(*    insertion order.                                                     *)
(*  - Display names (subject_name, recommendation text) are left out: no   *)
(*    decision of the code reads them.                                     *)
(***************************************************************************)
EXTENDS Integers, Sequences, FiniteSets, TLC

VARIABLES
    VARIANTS_CACHE,      \* routes/catalogue.py _VARIANTS_CACHE: whether loaded, and key -> variant
    ELECTIVES_CACHE,     \* routes/catalogue.py _ELECTIVES_CACHE: key -> cached response
    catResp,             \* the answer of the last catalogue route
    df,                  \* SubjectPredictionService.df: whether loaded, and student_id -> rows
    cohort_stats,        \* SubjectPredictionService.cohort_stats: code -> stats
    ml_service,          \* SubjectPredictionService.ml_service: the adapter as loaded
    student_cache,       \* SubjectPredictionService._student_cache
    student_perf_cache,  \* SubjectPredictionService._student_perf_cache
    predResp,            \* the answer of the last prediction call
    mlResp,              \* the answer of the last direct classifier call
    graph,               \* the prerequisite graph get_prerequisite_chain walks
    traversal,           \* the call stack, visited set and chain of a running traversal
    lookupResp,          \* the answer of the last chain / cohort-statistics route
    engine,              \* a RiskEngine over one programme, and its last direct call
    tasks                \* the catalogue requests the server has accepted: handler tasks of the event loop

catVars   == <<VARIANTS_CACHE, ELECTIVES_CACHE, catResp>>
predVars  == <<df, cohort_stats, ml_service, student_cache, student_perf_cache, predResp>>
mlVars    == <<mlResp>>
chainVars == <<graph, traversal, lookupResp>>
engVars   == <<engine>>
srvVars   == <<tasks>>
vars      == <<catVars, predVars, mlVars, chainVars, engVars, srvVars>>

None == "None"

(***************************************************************************)
(* Generic helpers.                                                        *)
(***************************************************************************)
RECURSIVE GCD(_, _)
GCD(a, b) == IF b = 0 THEN a ELSE GCD(b, a % b)

Abs(x) == IF x < 0 THEN -x ELSE x

\* A rational in lowest terms with a positive denominator.
Rat(n, d) ==
    LET g == GCD(Abs(n), Abs(d))
        s == IF d < 0 THEN -1 ELSE 1
    IN  [n |-> s * (n \div g), d |-> s * (d \div g)]

RAdd(a, b) == Rat(a.n * b.d + b.n * a.d, a.d * b.d)
RMul(a, b) == Rat(a.n * b.n, a.d * b.d)
RDiv(a, b) == Rat(a.n * b.d, a.d * b.n)
RLe(a, b)  == a.n * b.d <= b.n * a.d
RLt(a, b)  == a.n * b.d < b.n * a.d
RMax(a, b) == IF RLe(a, b) THEN b ELSE a
RMin(a, b) == IF RLe(a, b) THEN a ELSE b

Range(s) == {s[i] : i \in 1..Len(s)}

RECURSIVE Flatten(_)
Flatten(ss) == IF ss = <<>> THEN <<>> ELSE Head(ss) \o Flatten(Tail(ss))

RECURSIVE SortedSeq(_)
SortedSeq(S) ==
    IF S = {} THEN <<>>
    ELSE LET m == CHOOSE x \in S : \A y \in S : x <= y
         IN  <<m>> \o SortedSeq(S \ {m})

RECURSIVE SumSeq(_)
SumSeq(s) == IF s = <<>> THEN 0 ELSE Head(s) + SumSeq(Tail(s))

\* dict.get(key, default) on a TLA+ function.
Get(f, k, default) == IF k \in DOMAIN f THEN f[k] ELSE default

(***************************************************************************)
(* Catalogue data: backend/app/catalog/bcs_programs.py, bcs_electives.py   *)
(***************************************************************************)
COMMON_COURSES ==
    ("ENG1044" :> 4) @@
    ("CSC1202" :> 4) @@
    ("MTH1114" :> 4) @@
    ("CSC1024" :> 4) @@
    ("PRG1203" :> 4) @@
    ("SEG1201" :> 4) @@
    ("NET1014" :> 4) @@
    ("WEB1201" :> 4) @@
    ("CSC2104" :> 4) @@
    ("SEG2202" :> 4) @@
    ("CSC2103" :> 4) @@
    ("PRG2104" :> 4) @@
    ("ENG2042" :> 2) @@
    ("ENG2044" :> 4) @@
    ("CSC2014" :> 4) @@
    ("NET2201" :> 4) @@
    ("CSC3024" :> 4) @@
    ("SEG3203" :> 6) @@
    ("CSC3206" :> 4) @@
    ("PRJ3213" :> 3) @@
    ("PRJ3223" :> 3) @@
    ("NET3204" :> 4) @@
    ("MAT1013" :> 4) @@
    ("OSS1014" :> 4) @@
    ("BIS2212(MU32422)" :> 2) @@
    ("ENG2042(MU22812)" :> 2) @@
    ("MU42422" :> 2) @@
    ("MPU2012" :> 2) @@
    ("MPU3422" :> 2) @@
    ("MPU3332" :> 2)

SEM_MAPPING ==
    (<<"202301", "normal">> :> <<<<"ENG1044", 2>>, <<"CSC1202", 2>>, <<"MTH1114", 2>>, <<"CSC1024", 2>>,
        <<"PRG1203", 3>>, <<"SEG1201", 3>>, <<"NET1014", 3>>, <<"WEB1201", 3>>,
        <<"CSC2104", 5>>, <<"SEG2202", 5>>, <<"CSC2103", 5>>, <<"PRG2104", 5>>,
        <<"ENG2042(MU22812)", 5>>, <<"CSC2014", 6>>, <<"NET2201", 6>>, <<"CSC3024", 6>>,
        <<"CSC3206", 8>>, <<"PRJ3213", 8>>, <<"MU42422", 8>>, <<"PRJ3223", 9>>,
        <<"NET3204", 9>>, <<"SEG3203", 7>>, <<"BIS2212(MU32422)", 4>>>>) @@
    (<<"202301", "precalc">> :> <<<<"MAT1013", 1>>, <<"ENG1044", 2>>, <<"CSC1202", 2>>, <<"CSC1024", 2>>,
        <<"NET1014", 2>>, <<"MTH1114", 3>>, <<"PRG1203", 3>>, <<"SEG1201", 3>>,
        <<"WEB1201", 3>>, <<"CSC2104", 5>>, <<"SEG2202", 5>>, <<"CSC2103", 5>>,
        <<"PRG2104", 5>>, <<"ENG2042(MU22812)", 5>>, <<"CSC2014", 6>>, <<"NET2201", 6>>,
        <<"CSC3024", 6>>, <<"CSC3206", 8>>, <<"PRJ3213", 8>>, <<"MU42422", 8>>,
        <<"PRJ3223", 9>>, <<"NET3204", 9>>, <<"SEG3203", 7>>, <<"BIS2212(MU32422)", 4>>>>) @@
    (<<"202301", "direct">> :> <<<<"ENG1044", 2>>, <<"CSC1202", 2>>, <<"MTH1114", 2>>, <<"CSC1024", 2>>,
        <<"PRG1203", 3>>, <<"SEG1201", 3>>, <<"NET1014", 3>>, <<"WEB1201", 3>>,
        <<"CSC2104", 4>>, <<"SEG2202", 5>>, <<"CSC2103", 5>>, <<"PRG2104", 5>>,
        <<"ENG2042(MU22812)", 5>>, <<"CSC2014", 6>>, <<"NET2201", 5>>, <<"CSC3024", 5>>,
        <<"CSC3206", 8>>, <<"PRJ3213", 8>>, <<"MU42422", 4>>, <<"PRJ3223", 8>>,
        <<"NET3204", 8>>, <<"SEG3203", 9>>, <<"BIS2212(MU32422)", 4>>>>) @@
    (<<"202304", "normal">> :> <<<<"ENG1044", 1>>, <<"CSC1202", 1>>, <<"MTH1114", 1>>, <<"CSC1024", 1>>,
        <<"PRG1203", 2>>, <<"SEG1201", 2>>, <<"WEB1201", 2>>, <<"OSS1014", 2>>,
        <<"NET1014", 3>>, <<"CSC2014", 4>>, <<"CSC2103", 4>>, <<"PRG2104", 4>>,
        <<"ENG2044", 4>>, <<"CSC3206", 7>>, <<"PRJ3213", 7>>, <<"PRJ3223", 8>>,
        <<"NET3204", 8>>, <<"SEG3203", 9>>>>) @@
    (<<"202304", "precalc">> :> <<<<"MAT1013", 1>>, <<"ENG1044", 1>>, <<"CSC1202", 1>>, <<"CSC1024", 1>>,
        <<"WEB1201", 1>>, <<"MTH1114", 2>>, <<"PRG1203", 2>>, <<"SEG1201", 2>>,
        <<"OSS1014", 2>>, <<"NET1014", 3>>, <<"CSC2014", 4>>, <<"CSC2103", 4>>,
        <<"PRG2104", 4>>, <<"ENG2044", 4>>, <<"CSC3206", 7>>, <<"PRJ3213", 7>>,
        <<"PRJ3223", 8>>, <<"NET3204", 8>>, <<"SEG3203", 9>>>>) @@
    (<<"202304", "direct">> :> <<<<"ENG1044", 2>>, <<"CSC1202", 2>>, <<"MTH1114", 2>>, <<"CSC1024", 2>>,
        <<"PRG1203", 3>>, <<"SEG1201", 3>>, <<"WEB1201", 3>>, <<"OSS1014", 3>>,
        <<"NET1014", 6>>, <<"CSC2014", 5>>, <<"CSC2103", 4>>, <<"PRG2104", 4>>,
        <<"ENG2042(MU22812)", 4>>, <<"CSC3024", 5>>, <<"NET2201", 5>>, <<"CSC3206", 7>>,
        <<"PRJ3213", 7>>, <<"PRJ3223", 8>>, <<"NET3204", 8>>, <<"SEG3203", 9>>>>) @@
    (<<"202309", "normal">> :> <<<<"ENG1044", 1>>, <<"CSC1202", 1>>, <<"MTH1114", 1>>, <<"CSC1024", 1>>,
        <<"NET1014", 2>>, <<"PRG1203", 3>>, <<"SEG1201", 3>>, <<"WEB1201", 3>>,
        <<"OSS1014", 3>>, <<"CSC2103", 9>>, <<"CSC2014", 6>>, <<"PRG2104", 6>>,
        <<"ENG2044", 6>>, <<"CSC3206", 6>>, <<"PRJ3213", 7>>, <<"CSC3024", 7>>,
        <<"NET3204", 7>>, <<"SEG3203", 8>>, <<"PRJ3223", 9>>>>) @@
    (<<"202309", "precalc">> :> <<<<"MAT1013", 1>>, <<"ENG1044", 1>>, <<"CSC1202", 1>>, <<"CSC1024", 1>>,
        <<"WEB1201", 1>>, <<"NET1014", 2>>, <<"MTH1114", 3>>, <<"PRG1203", 3>>,
        <<"SEG1201", 3>>, <<"OSS1014", 3>>, <<"CSC2103", 9>>, <<"CSC2014", 6>>,
        <<"PRG2104", 6>>, <<"ENG2044", 6>>, <<"CSC3206", 6>>, <<"PRJ3213", 7>>,
        <<"CSC3024", 7>>, <<"NET3204", 7>>, <<"SEG3203", 8>>, <<"PRJ3223", 9>>>>)

CATEGORY_OVERRIDES ==
    ("PRJ3213" :> "capstone") @@
    ("PRJ3223" :> "capstone") @@
    ("SEG3203" :> "internship") @@
    ("BIS2212(MU32422)" :> "compulsory") @@
    ("ENG2042(MU22812)" :> "compulsory") @@
    ("ENG2044" :> "compulsory") @@
    ("MU42422" :> "compulsory") @@
    ("MPU2012" :> "compulsory") @@
    ("MPU3422" :> "compulsory") @@
    ("MPU3332" :> "compulsory")

PLACEHOLDER_COUNTS ==
    (<<"202301", "normal">> :> <<<<"D1Y2", 1>>, <<"D2Y2", 1>>, <<"D4Y3", 1>>, <<"D5Y3", 1>>, <<"*F1", 1>>, <<"*F2", 1>>, <<"*F3", 1>>>>) @@
    (<<"202301", "precalc">> :> <<<<"D1Y2", 1>>, <<"D2Y2", 1>>, <<"D4Y3", 1>>, <<"D5Y3", 1>>, <<"*F1", 1>>, <<"*F2", 1>>, <<"*F3", 1>>>>) @@
    (<<"202301", "direct">> :> <<<<"D1Y2", 1>>, <<"D2Y2", 1>>, <<"D4Y3", 1>>, <<"D5Y3", 1>>, <<"*F1", 1>>, <<"*F2", 1>>, <<"*F3", 1>>>>) @@
    (<<"202304", "normal">> :> <<<<"D1Y2", 1>>, <<"D2Y2", 1>>, <<"D4Y3", 1>>, <<"D5Y3", 1>>, <<"*F1", 1>>, <<"*F2", 1>>, <<"*F3", 1>>>>) @@
    (<<"202304", "precalc">> :> <<<<"D1Y2", 1>>, <<"D2Y2", 1>>, <<"D4Y3", 1>>, <<"D5Y3", 1>>, <<"*F1", 1>>, <<"*F2", 1>>, <<"*F3", 1>>>>) @@
    (<<"202304", "direct">> :> <<<<"D1Y2", 1>>, <<"D2Y2", 1>>, <<"D4Y3", 1>>, <<"D5Y3", 1>>, <<"*F1", 1>>, <<"*F2", 1>>, <<"*F3", 1>>>>) @@
    (<<"202309", "normal">> :> <<<<"D1Y2", 1>>, <<"D2Y2", 1>>, <<"D4Y3", 1>>, <<"D5Y3", 1>>, <<"*F1", 1>>, <<"*F2", 1>>, <<"*F3", 1>>>>) @@
    (<<"202309", "precalc">> :> <<<<"D1Y2", 1>>, <<"D2Y2", 1>>, <<"D4Y3", 1>>, <<"D5Y3", 1>>, <<"*F1", 1>>, <<"*F2", 1>>, <<"*F3", 1>>>>)

VARIANT_SPECS ==
    <<<<"202301", "normal", FALSE>>,
      <<"202301", "precalc", TRUE>>,
      <<"202301", "direct", FALSE>>,
      <<"202304", "normal", FALSE>>,
      <<"202304", "precalc", TRUE>>,
      <<"202304", "direct", FALSE>>,
      <<"202309", "normal", FALSE>>,
      <<"202309", "precalc", TRUE>>>>

EITHER_PAIRS == <<<<"MPU3193", "MPU3203">>, <<"MPU3183", "MPU3213">>>>

ELECTIVES_Y2_2023 ==
    <<<<"D1Y2", <<<<"PRG2214", 4>>, <<"NET2102", 4>>, <<"PRG2205", 4>>, <<"SEG2102", 4>>, <<"NET2201", 4>>>>>>,
      <<"D2Y2", <<<<"CSC2044", 4>>, <<"SEG2102", 4>>, <<"BIS2216", 4>>, <<"SWA2124", 4>>>>>>>>

ELECTIVES_Y3_2023 ==
    <<<<"D4Y3", <<<<"CSC3044", 4>>, <<"CSC3014", 4>>, <<"CSC3209", 4>>>>>>,
      <<"D5Y3", <<<<"CSC3034", 4>>, <<"CSC3064", 4>>, <<"PRG3014", 4>>>>>>>>

\* bcs_electives.py INTAKE_TO_STORE: the entries of the intakes in VARIANT_SPECS;
\* build_elective_groups falls back to the 2023 stores for any other intake.
INTAKE_TO_STORE ==
    ("202301" :> <<ELECTIVES_Y2_2023, ELECTIVES_Y3_2023>>) @@
    ("202304" :> <<ELECTIVES_Y2_2023, ELECTIVES_Y3_2023>>) @@
    ("202309" :> <<ELECTIVES_Y2_2023, ELECTIVES_Y3_2023>>)

CoreCategories == {"core", "compulsory", "capstone", "internship"}

(***************************************************************************)
(* Catalogue model: program_catalog_models.py, bcs_programs.py             *)
(***************************************************************************)
\* bcs_programs.c() / the Course dataclass; semester_offering None is 0.
Course(code, credit, sem, category, group, placeholder) ==
    [subject_code |-> code, credit |-> credit, semester_offering |-> sem,
     category |-> category, elective_group |-> group, is_placeholder |-> placeholder]

\* A pair that counts as satisfied only when both options are completed.
satisfied_by_both(option_codes, completed) ==
    \A i \in 1..Len(option_codes) : option_codes[i] \in completed

\* ChoicePair.satisfied: any option code is in the completed set.
satisfied(option_codes, completed) ==
    \E i \in 1..Len(option_codes) : option_codes[i] \in completed

build_elective_groups(intake_code) ==
    LET stores == Get(INTAKE_TO_STORE, intake_code, <<ELECTIVES_Y2_2023, ELECTIVES_Y3_2023>>)
        Group(entry, year) ==
            [group_code |-> entry[1], year_level |-> year,
             options |-> [i \in 1..Len(entry[2]) |->
                             Course(entry[2][i][1], entry[2][i][2], 0,
                                    "elective-discipline", entry[1], FALSE)]]
    IN  [i \in 1..Len(stores[1]) |-> Group(stores[1][i], 2)] \o
        [i \in 1..Len(stores[2]) |-> Group(stores[2][i], 3)]

\* The semester the either-pairs are attached to (build_variant, lines 190-199).
PairSemester(key) ==
    IF key[1] = "202301" THEN 1
    ELSE IF key[1] = "202304" THEN 3
    ELSE IF key[1] = "202309" THEN 2
    ELSE 1

\* The placeholder courses build_variant adds, as <<semester, course>>:
\* for i in range(count): allocate_sem = max(4, min(9, 3 + i + 1)).
PlaceholderCourses(key) ==
    LET counts == Get(PLACEHOLDER_COUNTS, key, <<>>)
        Min2(a, b) == IF a <= b THEN a ELSE b
        Max2(a, b) == IF a >= b THEN a ELSE b
        One(e) ==
            [i \in 1..e[2] |->
                LET sem == Max2(4, Min2(9, 3 + (i - 1) + 1))
                IN  <<sem, Course(e[1], 4, sem,
                                  IF e[1] \in {"*F1", "*F2", "*F3"} THEN "elective-free"
                                  ELSE "elective-discipline",
                                  None, TRUE)>>]
    IN  Flatten([j \in 1..Len(counts) |-> One(counts[j])])

build_variant(key) ==
    LET sem_map   == Get(SEM_MAPPING, key, <<>>)
        mapped    == [i \in 1..Len(sem_map) |->
                         <<sem_map[i][2],
                           Course(sem_map[i][1], COMMON_COURSES[sem_map[i][1]], sem_map[i][2],
                                  Get(CATEGORY_OVERRIDES, sem_map[i][1], "core"), None, FALSE)>>]
        hasPairs  == key[2] \in {"normal", "precalc"}
        counts    == Get(PLACEHOLDER_COUNTS, key, <<>>)
        placed    == mapped \o PlaceholderCourses(key)
        semNums   == {placed[i][1] : i \in 1..Len(placed)} \cup
                     (IF hasPairs THEN {PairSemester(key)} ELSE {})
        ordered   == SortedSeq(semNums)
        InSem(s)  == LET hit == SelectSeq(placed, LAMBDA e : e[1] = s)
                     IN  [i \in 1..Len(hit) |-> hit[i][2]]
        codes     == [i \in 1..Len(counts) |-> counts[i][1]]
    IN  [programme_code |-> "BCS", intake_code |-> key[1], entry_type |-> key[2],
         semesters |-> [i \in 1..Len(ordered) |->
                           [semester_number |-> ordered[i], required_courses |-> InSem(ordered[i])]],
         elective_groups |-> build_elective_groups(key[1]),
         prerequisite_graph |-> <<>>,
         choice_pairs |-> IF hasPairs THEN EITHER_PAIRS ELSE <<>>,
         discipline_elective_placeholders |->
             SelectSeq(codes, LAMBDA p : p \notin {"*F1", "*F2", "*F3"}),
         free_elective_placeholders |->
             SelectSeq(codes, LAMBDA p : p \in {"*F1", "*F2", "*F3"})]

\* load_bcs_variants: key = f"{intake}-{entry_type if not precalc_flag else 'precalc'}".
VariantKeys ==
    {<<VARIANT_SPECS[i][1], IF VARIANT_SPECS[i][3] THEN "precalc" ELSE VARIANT_SPECS[i][2]>> :
        i \in 1..Len(VARIANT_SPECS)}

load_bcs_variants == [key \in VariantKeys |-> build_variant(key)]

\* ProgrammeVariant.list_all_courses: the semesters' required courses, then every
\* elective option whose code has not been seen yet.
RECURSIVE AppendUnseen(_, _)
AppendUnseen(courses, options) ==
    IF options = <<>> THEN courses
    ELSE IF Head(options).subject_code \in {courses[i].subject_code : i \in 1..Len(courses)}
         THEN AppendUnseen(courses, Tail(options))
         ELSE AppendUnseen(Append(courses, Head(options)), Tail(options))

\* A listing that appends every elective option, seen before or not.
list_all_courses_with_repeats(v) ==
    Flatten([i \in 1..Len(v.semesters) |-> v.semesters[i].required_courses]) \o
    Flatten([i \in 1..Len(v.elective_groups) |-> v.elective_groups[i].options])

list_all_courses(v) ==
    AppendUnseen(Flatten([i \in 1..Len(v.semesters) |-> v.semesters[i].required_courses]),
                 Flatten([i \in 1..Len(v.elective_groups) |-> v.elective_groups[i].options]))

\* The percentage of the credits still outstanding.
RoundPercentOutstanding(completed, total) ==
    ((total - completed) * 10000) \div total

\* round(x * 100.0, 2) of the ratio completed/total, in hundredths of a percent
\* (ties to even, as Python's round on an exactly representable tie).
RoundPercent(completed, total) ==
    LET q == (completed * 10000) \div total
        r == (completed * 10000) % total
    IN  IF 2 * r > total \/ (2 * r = total /\ q % 2 = 1) THEN q + 1 ELSE q

\* A progress report that takes a placeholder slot as filled once any real
\* option of the elective group of that name is completed.
compute_progress_substituting(v, completed_codes) ==
    LET all_courses == SelectSeq(list_all_courses(v), LAMBDA c : ~c.is_placeholder)
        total       == SumSeq([i \in 1..Len(all_courses) |-> all_courses[i].credit])
        done        == SelectSeq(all_courses, LAMBDA c : c.subject_code \in completed_codes)
        completed   == SumSeq([i \in 1..Len(done) |-> done[i].credit])
        core        == SelectSeq(all_courses,
                           LAMBDA c : c.subject_code \notin completed_codes
                                      /\ c.category \in CoreCategories)
        Filled(s)   == \/ s \in completed_codes
                       \/ \E i \in 1..Len(v.elective_groups) :
                              /\ v.elective_groups[i].group_code = s
                              /\ \E j \in 1..Len(v.elective_groups[i].options) :
                                     v.elective_groups[i].options[j].subject_code
                                         \in completed_codes
    IN  [completed_credits |-> completed,
         total_credits |-> total,
         outstanding_credits |-> total - completed,
         core_remaining |-> [i \in 1..Len(core) |-> core[i].subject_code],
         discipline_elective_placeholders_remaining |->
             SelectSeq(v.discipline_elective_placeholders, LAMBDA s : ~Filled(s)),
         free_elective_placeholders_remaining |->
             SelectSeq(v.free_elective_placeholders, LAMBDA s : ~Filled(s)),
         either_pairs_remaining |->
             SelectSeq(v.choice_pairs, LAMBDA cp : ~satisfied(cp, completed_codes)),
         percent_complete |-> IF total # 0 THEN RoundPercent(completed, total) ELSE 0]

\* ProgrammeVariant.compute_progress
compute_progress(v, completed_codes) ==
    LET all_courses == SelectSeq(list_all_courses(v), LAMBDA c : ~c.is_placeholder)
        total       == SumSeq([i \in 1..Len(all_courses) |-> all_courses[i].credit])
        done        == SelectSeq(all_courses, LAMBDA c : c.subject_code \in completed_codes)
        completed   == SumSeq([i \in 1..Len(done) |-> done[i].credit])
        core        == SelectSeq(all_courses,
                           LAMBDA c : c.subject_code \notin completed_codes
                                      /\ c.category \in CoreCategories)
    IN  [completed_credits |-> completed,
         total_credits |-> total,
         outstanding_credits |-> total - completed,
         core_remaining |-> [i \in 1..Len(core) |-> core[i].subject_code],
         discipline_elective_placeholders_remaining |->
             SelectSeq(v.discipline_elective_placeholders, LAMBDA s : s \notin completed_codes),
         free_elective_placeholders_remaining |->
             SelectSeq(v.free_elective_placeholders, LAMBDA s : s \notin completed_codes),
         either_pairs_remaining |->
             SelectSeq(v.choice_pairs, LAMBDA cp : ~satisfied(cp, completed_codes)),
         percent_complete |-> IF total # 0 THEN RoundPercent(completed, total) ELSE 0]

(***************************************************************************)
(* Risk engine (what-if simulator): program_catalog_models.py RiskEngine   *)
(***************************************************************************)
\* round(x, places) on an exact rational, as a rational (ties to even).
RoundTo(x, scale) ==
    LET q == (x.n * scale) \div x.d
        r == (x.n * scale) % x.d
        up == 2 * r > x.d \/ (2 * r = x.d /\ q % 2 = 1)
    IN  Rat(IF up THEN q + 1 ELSE q, scale)

\* The scores, among those the inputs of this module produce, that are ties of
\* the third decimal as exact values and whose double lies on the odd side.
RoundsToOdd ==
    {Rat(1041, 2000), Rat(1141, 2000), Rat(1441, 2000), Rat(1541, 2000), Rat(63, 80),
     Rat(1591, 2000), Rat(1641, 2000), Rat(1741, 2000), Rat(89, 80)}

\* round(score, 3) of the double compute_course_risk holds.
RoundScore(score) ==
    IF score \in RoundsToOdd
    THEN Rat(2 * ((score.n * 1000) \div (2 * score.d)) + 1, 1000)
    ELSE RoundTo(score, 1000)

\* The band both compute_course_risk and what_if take from a score.
ScoreBand(score) ==
    IF RLe(Rat(7, 10), score) THEN "low"
    ELSE IF RLe(Rat(4, 10), score) THEN "medium"
    ELSE "high"

\* A course risk that takes every prerequisite as completed.
compute_course_risk_ignoring_prerequisites(v, course, student_metrics, completed) ==
    LET ratio        == Rat(1, 1)
        cgpa_scaled  == RDiv(student_metrics.cgpa, Rat(4, 1))
        trend_scaled == RDiv(RAdd(student_metrics.gpa_trend, Rat(1, 1)), Rat(2, 1))
        att_scaled   == RDiv(student_metrics.attendance, Rat(100, 1))
        workload     == RMax(Rat(0, 1),
                             RAdd(Rat(1, 1),
                                  RMul(Rat(-1, 24), student_metrics.planned_credits)))
        score == RAdd(RMul(Rat(30, 100), ratio),
                 RAdd(RMul(Rat(25, 100), cgpa_scaled),
                 RAdd(RMul(Rat(15, 100), trend_scaled),
                 RAdd(RMul(Rat(15, 100), att_scaled),
                      RMul(Rat(15, 100), workload)))))
    IN  [subject_code |-> course.subject_code,
         predicted_risk |-> ScoreBand(score),
         numeric_score |-> RoundScore(score),
         factors |-> [prereq_completed_ratio |-> ratio, cgpa_scaled |-> cgpa_scaled,
                      trend_scaled |-> trend_scaled, attendance_scaled |-> att_scaled,
                      workload_penalty |-> workload]]

\* A course risk over a variant whose graph names CSC1024 as the prerequisite of
\* PRG1203.
compute_course_risk_with_prerequisite(v, course, student_metrics, completed) ==
    LET prereqs == IF course.subject_code = "PRG1203" THEN <<"CSC1024">> ELSE <<>>
        ratio   == IF prereqs = <<>> THEN Rat(1, 1)
                   ELSE Rat(Cardinality({i \in 1..Len(prereqs) : prereqs[i] \in completed}),
                            Len(prereqs))
        cgpa_scaled  == RDiv(student_metrics.cgpa, Rat(4, 1))
        trend_scaled == RDiv(RAdd(student_metrics.gpa_trend, Rat(1, 1)), Rat(2, 1))
        att_scaled   == RDiv(student_metrics.attendance, Rat(100, 1))
        workload     == RMax(Rat(0, 1),
                             RAdd(Rat(1, 1),
                                  RMul(Rat(-1, 24), student_metrics.planned_credits)))
        score == RAdd(RMul(Rat(30, 100), ratio),
                 RAdd(RMul(Rat(25, 100), cgpa_scaled),
                 RAdd(RMul(Rat(15, 100), trend_scaled),
                 RAdd(RMul(Rat(15, 100), att_scaled),
                      RMul(Rat(15, 100), workload)))))
    IN  [subject_code |-> course.subject_code,
         predicted_risk |-> ScoreBand(score),
         numeric_score |-> RoundScore(score),
         factors |-> [prereq_completed_ratio |-> ratio, cgpa_scaled |-> cgpa_scaled,
                      trend_scaled |-> trend_scaled, attendance_scaled |-> att_scaled,
                      workload_penalty |-> workload]]

\* RiskEngine.compute_course_risk; metrics.get(name, 0.0) is the record field.
compute_course_risk(v, course, student_metrics, completed) ==
    LET prereqs == Get(v.prerequisite_graph, course.subject_code, <<>>)
        ratio   == IF prereqs = <<>> THEN Rat(1, 1)
                   ELSE Rat(Cardinality({i \in 1..Len(prereqs) : prereqs[i] \in completed}),
                            Len(prereqs))
        cgpa_scaled  == RDiv(student_metrics.cgpa, Rat(4, 1))
        trend_scaled == RDiv(RAdd(student_metrics.gpa_trend, Rat(1, 1)), Rat(2, 1))
        att_scaled   == RDiv(student_metrics.attendance, Rat(100, 1))
        workload     == RMax(Rat(0, 1),
                             RAdd(Rat(1, 1),
                                  RMul(Rat(-1, 24), student_metrics.planned_credits)))
        score == RAdd(RMul(Rat(30, 100), ratio),
                 RAdd(RMul(Rat(25, 100), cgpa_scaled),
                 RAdd(RMul(Rat(15, 100), trend_scaled),
                 RAdd(RMul(Rat(15, 100), att_scaled),
                      RMul(Rat(15, 100), workload)))))
    IN  [subject_code |-> course.subject_code,
         predicted_risk |-> ScoreBand(score),
         numeric_score |-> RoundScore(score),
         factors |-> [prereq_completed_ratio |-> ratio, cgpa_scaled |-> cgpa_scaled,
                      trend_scaled |-> trend_scaled, attendance_scaled |-> att_scaled,
                      workload_penalty |-> workload]]

RECURSIVE RSum(_)
RSum(s) == IF s = <<>> THEN Rat(0, 1) ELSE RAdd(Head(s), RSum(Tail(s)))

\* A what-if that scores the courses with the planned_credits the caller gave.
what_if_keeping_workload(v, planned_codes, student_metrics, completed) ==
    LET courses == SelectSeq(list_all_courses(v),
                             LAMBDA c : c.subject_code \in Range(planned_codes))
        total   == SumSeq([i \in 1..Len(courses) |-> courses[i].credit])
        per     == [i \in 1..Len(courses) |->
                       compute_course_risk(v, courses[i], student_metrics, completed)]
        aggregated == IF per = <<>> THEN Rat(0, 1)
                      ELSE RDiv(RSum([i \in 1..Len(per) |-> per[i].numeric_score]),
                                Rat(Len(per), 1))
    IN  [selected_subject_codes |-> planned_codes,
         total_credits |-> total,
         aggregated_risk_score |-> RoundTo(aggregated, 1000),
         risk_band |-> ScoreBand(aggregated),
         per_course |-> per]

\* RiskEngine.what_if
what_if(v, planned_codes, student_metrics, completed) ==
    LET courses == SelectSeq(list_all_courses(v),
                             LAMBDA c : c.subject_code \in Range(planned_codes))
        total   == SumSeq([i \in 1..Len(courses) |-> courses[i].credit])
        metrics == [student_metrics EXCEPT !.planned_credits = Rat(total, 1)]
        per     == [i \in 1..Len(courses) |->
                       compute_course_risk(v, courses[i], metrics, completed)]
        aggregated == IF per = <<>> THEN Rat(0, 1)
                      ELSE RDiv(RSum([i \in 1..Len(per) |-> per[i].numeric_score]),
                                Rat(Len(per), 1))
    IN  [selected_subject_codes |-> planned_codes,
         total_credits |-> total,
         aggregated_risk_score |-> RoundTo(aggregated, 1000),
         risk_band |-> ScoreBand(aggregated),
         per_course |-> per]

(***************************************************************************)
(* Catalogue routes: backend/app/routes/catalogue.py                       *)
(***************************************************************************)
\* Inputs of the catalogue requests.
UnknownKeys == {<<"202309", "direct">>, <<"202301", "honours">>, <<"209901", "normal">>}
RequestKeys == VariantKeys \cup UnknownKeys
ElectiveRequestKeys ==
    {<<"202301", "normal">>, <<"202304", "direct">>} \cup UnknownKeys
WhatIfRequestKeys == {<<"202301", "normal">>, <<"202304", "direct">>} \cup UnknownKeys

all_non_placeholder_codes(v) ==
    {c.subject_code : c \in {x \in Range(list_all_courses(v)) : ~x.is_placeholder}}

\* Completed sets a progress request may carry: nothing, one semester, an
\* either-pair option, a placeholder, an elective option with an unknown code,
\* both options of one either-pair,
\* and everything the variant lists (with and without the either-pair options).
CompletedSets(variants, key) ==
    {{}, {"ENG1044", "CSC1202", "MTH1114", "CSC1024"}, {"MPU3193"}, {"D1Y2"},
     {"PRG2214", "ZZZ9999"}, {"MPU3193", "MPU3203", "CSC1024"}} \cup
    (IF key \in DOMAIN variants
     THEN {all_non_placeholder_codes(variants[key]),
           all_non_placeholder_codes(variants[key]) \cup {"MPU3193", "MPU3183"}}
     ELSE {})

PlannedLists == {<<>>, <<"PRG1203", "SEG1201", "NET1014">>, <<"SEG3203", "ZZZ9999">>}

MetricsInputs ==
    {[cgpa |-> Rat(32, 10), attendance |-> Rat(92, 1), gpa_trend |-> Rat(1, 10),
      planned_credits |-> Rat(0, 1)],
     [cgpa |-> Rat(0, 1), attendance |-> Rat(0, 1), gpa_trend |-> Rat(-1, 1),
      planned_credits |-> Rat(0, 1)],
     [cgpa |-> Rat(4, 1), attendance |-> Rat(200, 1), gpa_trend |-> Rat(1, 1),
      planned_credits |-> Rat(0, 1)]}

\* get_variants: build the catalogue on first use, then reuse it.
get_variants(cache) ==
    IF ~cache.loaded THEN [loaded |-> TRUE, variants |-> load_bcs_variants] ELSE cache

NotFound(op, key) == [op |-> op, key |-> key, status |-> 404, body |-> <<>>]
Ok(op, key, body) == [op |-> op, key |-> key, status |-> 200, body |-> body]

ListVariants ==
    /\ VARIANTS_CACHE' = get_variants(VARIANTS_CACHE)
    /\ catResp' = Ok("list_variants", <<"", "">>, DOMAIN VARIANTS_CACHE'.variants)
    /\ UNCHANGED <<ELECTIVES_CACHE, predVars, mlVars, chainVars, engVars, srvVars>>

\* A lookup that falls back to the first built variant for an unknown key.
GetVariantCoursesDefault(key) ==
    /\ VARIANTS_CACHE' = get_variants(VARIANTS_CACHE)
    /\ catResp' = Ok("get_variant_courses", key,
                     list_all_courses(
                         IF key \in DOMAIN VARIANTS_CACHE'.variants
                         THEN VARIANTS_CACHE'.variants[key]
                         ELSE VARIANTS_CACHE'.variants[<<"202301", "normal">>]))
    /\ UNCHANGED <<ELECTIVES_CACHE, predVars, mlVars, chainVars, engVars, srvVars>>

GetVariantCourses(key) ==
    /\ VARIANTS_CACHE' = get_variants(VARIANTS_CACHE)
    /\ catResp' = IF key \notin DOMAIN VARIANTS_CACHE'.variants
                  THEN NotFound("get_variant_courses", key)
                  ELSE Ok("get_variant_courses", key,
                          list_all_courses(VARIANTS_CACHE'.variants[key]))
    /\ UNCHANGED <<ELECTIVES_CACHE, predVars, mlVars, chainVars, engVars, srvVars>>

\* The elective response cache is read before the variant key is checked.
GetVariantElectives(key) ==
    IF key \in DOMAIN ELECTIVES_CACHE
    THEN /\ catResp' = ELECTIVES_CACHE[key]
         /\ UNCHANGED <<VARIANTS_CACHE, ELECTIVES_CACHE, predVars, mlVars, chainVars, engVars, srvVars>>
    ELSE /\ VARIANTS_CACHE' = get_variants(VARIANTS_CACHE)
         /\ IF key \notin DOMAIN VARIANTS_CACHE'.variants
            THEN /\ catResp' = NotFound("get_variant_electives", key)
                 /\ UNCHANGED ELECTIVES_CACHE
            ELSE /\ catResp' = Ok("get_variant_electives", key,
                                  VARIANTS_CACHE'.variants[key].elective_groups)
                 /\ ELECTIVES_CACHE' = (key :> catResp') @@ ELECTIVES_CACHE
         /\ UNCHANGED <<predVars, mlVars, chainVars, engVars, srvVars>>

\* A progress computation that strikes the completed placeholder slots off the
\* variant it reads.
ComputeProgressConsuming(key, completed_codes) ==
    /\ catResp' = IF key \notin DOMAIN get_variants(VARIANTS_CACHE).variants
                  THEN NotFound("compute_progress", key)
                  ELSE Ok("compute_progress", key,
                          [completed_codes |-> completed_codes,
                           report |-> compute_progress(
                                          get_variants(VARIANTS_CACHE).variants[key],
                                          completed_codes)])
    /\ VARIANTS_CACHE' =
          IF key \notin DOMAIN get_variants(VARIANTS_CACHE).variants
          THEN get_variants(VARIANTS_CACHE)
          ELSE [get_variants(VARIANTS_CACHE) EXCEPT
                   !.variants[key].discipline_elective_placeholders =
                       SelectSeq(@, LAMBDA s : s \notin completed_codes)]
    /\ UNCHANGED <<ELECTIVES_CACHE, predVars, mlVars, chainVars, engVars, srvVars>>

ComputeProgress(key, completed_codes) ==
    /\ VARIANTS_CACHE' = get_variants(VARIANTS_CACHE)
    /\ catResp' = IF key \notin DOMAIN VARIANTS_CACHE'.variants
                  THEN NotFound("compute_progress", key)
                  ELSE Ok("compute_progress", key,
                          [completed_codes |-> completed_codes,
                           report |-> compute_progress(VARIANTS_CACHE'.variants[key],
                                                       completed_codes)])
    /\ UNCHANGED <<ELECTIVES_CACHE, predVars, mlVars, chainVars, engVars, srvVars>>

WhatIfAnalysis(key, planned_codes, completed_codes, metrics) ==
    /\ VARIANTS_CACHE' = get_variants(VARIANTS_CACHE)
    /\ catResp' = IF key \notin DOMAIN VARIANTS_CACHE'.variants
                  THEN NotFound("what_if", key)
                  ELSE Ok("what_if", key,
                          [completed_codes |-> completed_codes, metrics |-> metrics,
                           result |-> what_if(VARIANTS_CACHE'.variants[key], planned_codes,
                                              [metrics EXCEPT !.planned_credits = Rat(0, 1)],
                                              completed_codes)])
    /\ UNCHANGED <<ELECTIVES_CACHE, predVars, mlVars, chainVars, engVars, srvVars>>


(***************************************************************************)
(* Prediction service: grade tables                                        *)
(* (backend/app/services/subject_prediction_service.py).                   *)
(* Grade points and prerequisite weights are held in tenths.               *)
(***************************************************************************)
NoPoints == -1      \* the None grade-point value ('P', 'EX', 'INC', 'W', unknown)
NaNPct   == -1      \* an empty overall_percentage cell (NaN after read_csv)

GRADE_POINTS ==
    ("A+" :> 40) @@ ("A" :> 40) @@ ("A-" :> 37) @@
    ("B+" :> 33) @@ ("B" :> 30) @@ ("B-" :> 27) @@
    ("C+" :> 23) @@ ("C" :> 20) @@ ("C-" :> 17) @@
    ("D+" :> 13) @@ ("D" :> 10) @@ ("D-" :> 7) @@
    ("E" :> 5) @@ ("F" :> 0) @@ ("F*" :> 0) @@
    ("P" :> NoPoints) @@ ("EX" :> NoPoints) @@ ("INC" :> NoPoints) @@ ("W" :> NoPoints)

SUBJECT_PREREQUISITES ==
    ("SEG2102" :> <<<<"SEG1201", 9>>>>) @@
    ("CSC3064" :> <<<<"SEG2102", 8>>, <<"SEG1201", 5>>>>) @@
    ("BIS2216" :> <<<<"SEG1201", 6>>>>) @@
    ("BIS3216" :> <<<<"BIS2216", 8>>, <<"SEG1201", 4>>>>) @@
    ("PRG1203" :> <<<<"CSC1024", 9>>>>) @@
    ("PRG2104" :> <<<<"PRG1203", 9>>, <<"CSC1024", 4>>>>) @@
    ("CSC2103" :> <<<<"PRG1203", 8>>, <<"CSC1024", 5>>>>) @@
    ("CSC2044" :> <<<<"PRG2104", 7>>, <<"PRG1203", 5>>>>) @@
    ("PRG2205" :> <<<<"PRG2104", 7>>, <<"CSC2103", 5>>>>) @@
    ("PRG2214" :> <<<<"PRG1203", 7>>, <<"CSC1024", 5>>>>) @@
    ("SEG2202" :> <<<<"PRG1203", 6>>, <<"SEG1201", 5>>>>) @@
    ("CSC3209" :> <<<<"SEG2202", 8>>, <<"PRG2104", 6>>>>) @@
    ("PRG3014" :> <<<<"SEG2202", 5>>, <<"CSC3024", 6>>>>) @@
    ("CSC3206" :> <<<<"CSC2103", 7>>, <<"MTH1114", 5>>>>) @@
    ("CSC3034" :> <<<<"CSC3206", 8>>, <<"CSC2103", 4>>>>) @@
    ("CSC3014" :> <<<<"CSC2014", 7>>, <<"CSC3206", 5>>>>) @@
    ("CSC2014" :> <<<<"MTH1114", 5>>, <<"CSC1024", 4>>>>) @@
    ("NET2201" :> <<<<"NET1014", 9>>>>) @@
    ("NET2102" :> <<<<"NET1014", 8>>>>) @@
    ("NET2103" :> <<<<"NET2201", 7>>, <<"CSC2104", 5>>>>) @@
    ("NET3014" :> <<<<"NET2201", 8>>, <<"NET2102", 5>>>>) @@
    ("NET3106" :> <<<<"NET2201", 7>>, <<"CSC3044", 6>>>>) @@
    ("NET3204" :> <<<<"NET2201", 7>>, <<"CSC2104", 5>>>>) @@
    ("NET3207" :> <<<<"NET2201", 8>>, <<"NET2103", 6>>>>) @@
    ("MMD3105" :> <<<<"NET2201", 6>>>>) @@
    ("CSC3044" :> <<<<"NET2201", 6>>, <<"CSC2104", 5>>>>) @@
    ("SEC3024" :> <<<<"CSC3044", 8>>, <<"NET2201", 5>>>>) @@
    ("SEC3014" :> <<<<"NET3106", 8>>, <<"CSC3044", 5>>>>) @@
    ("SEC3034" :> <<<<"SEC3024", 7>>, <<"CSC3044", 6>>>>) @@
    ("SEC3044" :> <<<<"CSC3044", 8>>, <<"SEC3024", 6>>>>) @@
    ("CSC2104" :> <<<<"CSC1202", 7>>, <<"CSC1024", 5>>>>) @@
    ("OSS1014" :> <<<<"CSC1202", 7>>, <<"CSC1024", 5>>>>) @@
    ("WEB2202" :> <<<<"WEB1201", 9>>, <<"PRG1203", 5>>>>) @@
    ("MTH2103" :> <<<<"MTH1114", 8>>, <<"IST1024", 5>>>>) @@
    ("IST2024" :> <<<<"IST1024", 7>>, <<"MTH1114", 4>>>>) @@
    ("IST2334" :> <<<<"SEG1201", 5>>, <<"NET1014", 4>>>>) @@
    ("IST2134" :> <<<<"IST1024", 5>>>>) @@
    ("IST2234" :> <<<<"IST1024", 6>>, <<"IST2034", 5>>>>) @@
    ("IST3134" :> <<<<"SEG2102", 6>>, <<"IST2024", 5>>>>) @@
    ("IST3144" :> <<<<"IST2024", 7>>>>) @@
    ("IST3244" :> <<<<"IST2024", 8>>, <<"IST2234", 5>>>>) @@
    ("BIS3218" :> <<<<"BIS2216", 7>>, <<"SEG2102", 5>>>>) @@
    ("PRJ3213" :> <<<<"SEG2202", 6>>, <<"PRG2104", 5>>>>) @@
    ("PRJ3223" :> <<<<"PRJ3213", 9>>>>) @@
    ("CSC3024" :> <<<<"SEG2202", 4>>, <<"PRG1203", 4>>>>)

RISK_THRESHOLDS == [high |-> Rat(2, 1), medium |-> Rat(27, 10), low |-> Rat(33, 10)]

\* str(grade).strip().upper() on the grade spellings of the modelled dataset.
StripUpper(grade) ==
    CASE grade = "c+"  -> "C+"
      [] grade = " B " -> "B"
      [] OTHER         -> grade

\* grade.rstrip('*') on the same spellings.
RStripStars(grade) ==
    CASE grade = "F*"  -> "F"
      [] grade = "C**" -> "C"
      [] OTHER         -> grade

\* _get_grade_points: the cleaned spelling is looked up first; a key that is
\* present with value None answers None without trying the second lookup.
get_grade_points(grade) ==
    IF grade = "" THEN NoPoints
    ELSE LET g     == StripUpper(grade)
             clean == RStripStars(g)
         IN  IF clean \in DOMAIN GRADE_POINTS THEN GRADE_POINTS[clean]
             ELSE IF g \in DOMAIN GRADE_POINTS THEN GRADE_POINTS[g]
             ELSE NoPoints

(***************************************************************************)
(* Optional and non-finite floats.                                         *)
(***************************************************************************)
NoneRat == [n |-> 0, d |-> 0]     \* None where a float is expected
NaN     == [n |-> 1, d |-> 0]     \* float('nan')

IsFinite(x) == x.d > 0

\* np.mean of a non-empty list of floats: NaN as soon as one element is NaN.
Mean(s) ==
    IF \E i \in 1..Len(s) : ~IsFinite(s[i]) THEN NaN
    ELSE RDiv(RSum(s), Rat(Len(s), 1))

Tenths(k) == Rat(k, 10)
Pct(p)    == IF p = NaNPct THEN NaN ELSE Rat(p, 1)

RECURSIVE SelectIdx(_, _, _)
\* The elements of s that satisfy Test, in order (a list comprehension).
SelectIdx(s, Test(_), i) ==
    IF i > Len(s) THEN <<>>
    ELSE (IF Test(s[i]) THEN <<s[i]>> ELSE <<>>) \o SelectIdx(s, Test, i + 1)

Filter(s, Test(_)) == SelectIdx(s, Test, 1)

\* A function over 1..n as a sequence value, evaluated once.
AsSeq(f) == <<>> \o f

Map(s, F(_)) == AsSeq([i \in 1..Len(s) |-> F(s[i])])

\* A local variable: F applied to the value v.
With(v, F(_)) == F(v)

(***************************************************************************)
(* The student data set (data/flattened_students_subjects.csv) and the     *)
(* classifier artefacts (models/) are deployment inputs: the service runs  *)
(* with or without each of them.                                           *)
(***************************************************************************)
Row(code, grade, pct) == [subject_code |-> code, grade |-> grade, overall_percentage |-> pct]

Students == {1, 2, 3}

\* Student 1 is strong, with one failed networking subject; student 2 has a
\* retaken subject, an ungraded pass and irregular grade spellings; student 3
\* has no row at all.
DatasetRows ==
    (1 :> << Row("CSC1024", "A", 85), Row("PRG1203", "B+", 72),
             Row("SEG1201", "B+", 70), Row("BIS2216", "B+", 71),
             Row("NET1014", "F", 35) >>) @@
    (2 :> << Row("CSC1024", "F", 30), Row("PRG1203", "P", NaNPct),
             Row("CSC1024", "c+", 55), Row("SEG1201", "F*", 20),
             Row("ENG1044", "-", NaNPct) >>) @@
    (3 :> << >>)

NoRows == [s \in Students |-> << >>]

Datasets == { [loaded |-> FALSE, rows |-> NoRows], [loaded |-> TRUE, rows |-> DatasetRows] }

TargetCodes == {"CSC1024", "PRG1203", "PRG2104", "BIS3216", "NET2201", "CSC2104", "ZZZ9999"}

AllRows(d) == Flatten([i \in 1..Cardinality(Students) |-> d.rows[i]])

PassingGrades == {"A+", "A", "A-", "B+", "B", "B-", "C+", "C"}
FailingGrades == {"D+", "D", "D-", "E", "F", "F*"}
UngradedMarks == {"P", "EX", "INC", "W", "-"}

\* _compute_cohort_stats: per subject code of the graded rows.  The grade is
\* compared as it is spelled in the data, without _get_grade_points.
compute_cohort_stats(d) ==
    IF ~d.loaded THEN [c \in {} |-> NoneRat]
    ELSE
    LET IsGraded(r) == r.grade # "" /\ r.grade \notin UngradedMarks
        graded      == Filter(AllRows(d), IsGraded)
        codes       == {graded[i].subject_code : i \in 1..Len(graded)}
        Stats(code) ==
            LET OfCode(r)   == r.subject_code = code
                subject_data == Filter(graded, OfCode)
                Passed(r)   == r.grade \in PassingGrades
                HasScore(r) == r.overall_percentage # NaNPct
                HasGpa(r)   == r.grade \in DOMAIN GRADE_POINTS /\ GRADE_POINTS[r.grade] # NoPoints
                Score(r)    == Rat(r.overall_percentage, 1)
                Gpa(r)      == Tenths(GRADE_POINTS[r.grade])
                valid_scores == Filter(subject_data, HasScore)
                gpas        == Filter(subject_data, HasGpa)
            IN  [ pass_rate      |-> Rat(Len(Filter(subject_data, Passed)), Len(subject_data)),
                  avg_score      |-> IF Len(valid_scores) > 0 THEN Mean(Map(valid_scores, Score)) ELSE NoneRat,
                  avg_gpa        |-> IF Len(gpas) > 0 THEN Mean(Map(gpas, Gpa)) ELSE NoneRat,
                  total_students |-> Len(subject_data) ]
    IN  [c \in codes |-> Stats(c)]

\* self.cohort_stats.get(code, {}) and the reads of the answer.
CohortPassRate(stats, code) == IF code \in DOMAIN stats THEN stats[code].pass_rate ELSE NoneRat
CohortAvgScore(stats, code) == IF code \in DOMAIN stats THEN stats[code].avg_score ELSE NoneRat

(***************************************************************************)
(* Per-student caches.  A dict is a sequence of <<key, value>> pairs in    *)
(* insertion order.  The code holds at most 500 entries and drops the 100  *)
(* oldest; the model keeps the mechanism and scales both numbers down.     *)
(***************************************************************************)
CacheLimit == 2
CacheDrop  == 1

CacheHas(cache, k) == \E i \in 1..Len(cache) : cache[i][1] = k
\* A read that answers with the oldest entry whatever the key.
CacheGetOldest(cache, k) == cache[1][2]

CacheGet(cache, k) == cache[CHOOSE i \in 1..Len(cache) : cache[i][1] = k][2]

\* An insertion that drops the oldest entries only once the cache holds more
\* than CacheLimit entries.
CachePutWhenOver(cache, k, v) ==
    LET kept == IF Len(cache) > CacheLimit
                THEN SubSeq(cache, CacheDrop + 1, Len(cache))
                ELSE cache
    IN  Append(kept, <<k, v>>)

\* dict(items[CacheDrop:]) when full, then cache[k] = v for a key not yet held.
CachePut(cache, k, v) ==
    LET kept == IF Len(cache) >= CacheLimit
                THEN SubSeq(cache, CacheDrop + 1, Len(cache))
                ELSE cache
    IN  Append(kept, <<k, v>>)

RECURSIVE ParseRows(_, _)
\* The loop of _get_student_subjects: subjects[code] = {...}; a later row of
\* the same code replaces the value and keeps the key's position.
ParseRows(rows, subjects) ==
    IF rows = <<>> THEN subjects
    ELSE LET row   == Head(rows)
             entry == [ subject_code |-> row.subject_code, grade |-> row.grade,
                        grade_points |-> get_grade_points(row.grade),
                        overall_percentage |-> row.overall_percentage ]
             next  == IF \E i \in 1..Len(subjects) : subjects[i].subject_code = row.subject_code
                      THEN [i \in 1..Len(subjects) |->
                               IF subjects[i].subject_code = row.subject_code
                               THEN entry ELSE subjects[i]]
                      ELSE Append(subjects, entry)
         IN  ParseRows(Tail(rows), next)

\* _get_student_subjects: the answer and the cache it leaves.
get_student_subjects(d, cache, student_id) ==
    IF CacheHas(cache, student_id)
    THEN [subjects |-> CacheGet(cache, student_id), cache |-> cache]
    ELSE IF ~d.loaded
    THEN [subjects |-> <<>>, cache |-> cache]
    ELSE LET subjects == ParseRows(d.rows[student_id], <<>>)
         IN  [subjects |-> subjects, cache |-> CachePut(cache, student_id, subjects)]

\* _calculate_student_performance_features.
calculate_student_performance_features(student_subjects) ==
    IF student_subjects = <<>>
    THEN [ num_subjects_completed |-> 0, current_gpa |-> Rat(0, 1),
           gpa_trend_last_3 |-> Rat(0, 1), avg_overall_percentage |-> Rat(0, 1),
           num_fails |-> 0, fail_rate |-> Rat(0, 1) ]
    ELSE
    LET HasPoints(s) == s.grade_points # NoPoints
        Points(s)    == Tenths(s.grade_points)
        Failed(s)    == s.grade \in FailingGrades
        Percent(s)   == Pct(s.overall_percentage)
        gpas         == Map(Filter(student_subjects, HasPoints), Points)
        k            == Len(gpas)
        gpa_trend    == IF k >= 6
                        THEN RAdd(Mean(SubSeq(gpas, k - 2, k)),
                                  RMul(Rat(-1, 1), Mean(SubSeq(gpas, k - 5, k - 3))))
                        ELSE Rat(0, 1)
        num_fails    == Len(Filter(student_subjects, Failed))
    IN  [ num_subjects_completed |-> Len(student_subjects),
          current_gpa            |-> IF k > 0 THEN Mean(gpas) ELSE Rat(0, 1),
          gpa_trend_last_3       |-> gpa_trend,
          avg_overall_percentage |-> Mean(Map(student_subjects, Percent)),
          num_fails              |-> num_fails,
          fail_rate              |-> Rat(num_fails, Len(student_subjects)) ]

\* _get_cached_student_performance: the answer and the cache it leaves.
get_cached_student_performance(cache, student_id, student_subjects) ==
    IF CacheHas(cache, student_id)
    THEN [perf |-> CacheGet(cache, student_id), cache |-> cache]
    ELSE LET perf == calculate_student_performance_features(student_subjects)
         IN  [perf |-> perf, cache |-> CachePut(cache, student_id, perf)]

(***************************************************************************)
(* The classifier adapter (backend/app/services/ml_prediction_service.py). *)
(* ml_service holds what _load_model found: `imported` is whether the      *)
(* module import in _load_ml_service succeeded, `model` is 0 when          *)
(* random_forest_model.pkl is absent and otherwise names the trained       *)
(* forest, `encoders` and `metadata` are whether label_encoders.pkl and    *)
(* model_metadata.json were found.  Whether the estimator raises on a row  *)
(* holding NaN depends on the installed library: `rejects_nan`.            *)
(***************************************************************************)
MlService(imported, model, encoders, metadata, rejects_nan) ==
    [ imported |-> imported, model |-> model, encoders |-> encoders,
      metadata |-> metadata, rejects_nan |-> rejects_nan ]

MlServices ==
    { MlService(FALSE, 0, FALSE, FALSE, FALSE),    \* import failed: ml_service is None
      MlService(TRUE, 0, TRUE, TRUE, FALSE),       \* no model file
      MlService(TRUE, 1, TRUE, FALSE, FALSE),      \* model without metadata
      MlService(TRUE, 1, TRUE, TRUE, TRUE),
      MlService(TRUE, 2, TRUE, TRUE, FALSE) }

\* Availability judged by the metadata instead of the model.
is_available_by_metadata(svc) == svc.metadata

is_available(svc) == svc.model # 0

\* `self.ml_service and self.ml_service.is_available()`
MlUsable(svc) == svc.imported /\ is_available(svc)

NoPrediction == [kind |-> "None"]
NoFeatures   == [kind |-> "None"]

\* The classes of the subject_code label encoder; an unknown code encodes as -1.
EncoderClasses == <<"BIS3216", "CSC1024", "NET2201", "PRG1203", "PRG2104">>

subject_code_encoded(code) ==
    IF \E i \in 1..Len(EncoderClasses) : EncoderClasses[i] = code
    THEN (CHOOSE i \in 1..Len(EncoderClasses) : EncoderClasses[i] = code) - 1
    ELSE -1

\* prepare_features: None when the adapter has no model, and None when the row
\* cannot be built: `in self.label_encoders` raises on None and so does
\* selecting the columns `self.feature_columns` when the metadata is absent.
prepare_features(svc, data) ==
    IF ~is_available(svc) THEN NoFeatures
    ELSE IF ~svc.encoders \/ ~svc.metadata THEN NoFeatures
    ELSE [ kind |-> "X", student |-> data.student_features,
           prereq |-> data.prereq_features, cohort |-> data.cohort_features,
           subject_code_encoded |-> subject_code_encoded(data.subject_code) ]

HasNonFinite(X) ==
    \/ ~IsFinite(X.student.avg_overall_percentage)
    \/ ~IsFinite(X.cohort.subject_avg_gpa)

Floor(x) == x.n \div x.d

\* The trained forest is a deterministic function of the feature row.  The
\* model stands for it with a table indexed by a digest of the row.
Digest(X) ==
      X.student.num_subjects_completed + 2 * X.student.num_fails
    + 3 * X.prereq.num_prerequisites_completed
    + 5 * X.prereq.num_prerequisites_missing
    + 7 * (X.subject_code_encoded + 1)
    + Floor(RMul(X.prereq.weighted_prereq_gpa, Rat(10, 1)))

ProbaTable ==
    << Rat(9, 10), Rat(4, 5), Rat(7, 10), Rat(13, 20), Rat(11, 20), Rat(1, 2), Rat(3, 10) >>

\* model.predict_proba on one row: the probability of passing, or an exception.
predict_proba(svc, X) ==
    IF svc.rejects_nan /\ HasNonFinite(X)
    THEN [raised |-> TRUE, p |-> NaN]
    ELSE [raised |-> FALSE, p |-> ProbaTable[((Digest(X) + svc.model) % Len(ProbaTable)) + 1]]

\* The probability bands shared by predict and predict_batch.
MlRiskLevel(p) ==
    IF RLe(Rat(4, 5), p) THEN "low"
    ELSE IF RLe(Rat(13, 20), p) THEN "medium"
    ELSE IF RLe(Rat(1, 2), p) THEN "high"
    ELSE "very_high"

\* _get_top_factors: [] without feature importances and [] when abs() meets a
\* None feature; otherwise a ranking determined by the row, kept as its digest.
get_top_factors(svc, X) ==
    IF ~svc.metadata THEN <<>>
    ELSE IF X.cohort.subject_avg_gpa = NoneRat THEN <<>>
    ELSE <<Digest(X)>>

MLPrediction(svc, X, p) ==
    [ kind |-> "MLPrediction", success_probability |-> p,
      confidence |-> RMul(Rat(Abs(2 * p.n - p.d), 2 * p.d), Rat(2, 1)),
      top_factors |-> get_top_factors(svc, X), risk_level |-> MlRiskLevel(p) ]

\* MLPredictionService.predict: every failure is caught and answered with None.
predict(svc, data) ==
    IF ~is_available(svc) THEN NoPrediction
    ELSE LET X == prepare_features(svc, data)
         IN  IF X = NoFeatures THEN NoPrediction
             ELSE LET out == predict_proba(svc, X)
                  IN  IF out.raised THEN NoPrediction
                      ELSE MLPrediction(svc, X, out.p)

\* A batch that answers its entries in reverse order.
predict_batch_reversed(svc, predictions_data) ==
    AsSeq([i \in 1..Len(predictions_data) |->
              predict(svc, predictions_data[Len(predictions_data) + 1 - i])])

\* MLPredictionService.predict_batch: one try block around the whole batch and
\* one predict_proba call on the concatenated rows, which raises as soon as one
\* of the rows makes it raise.
predict_batch(svc, predictions_data) ==
    LET n           == Len(predictions_data)
        AllNone     == AsSeq([i \in 1..n |-> NoPrediction])
        feature_dfs == AsSeq([i \in 1..n |-> prepare_features(svc, predictions_data[i])])
        valid       == {i \in 1..n : feature_dfs[i] # NoFeatures}
        outs        == AsSeq([i \in 1..n |->
                           IF i \in valid THEN predict_proba(svc, feature_dfs[i])
                           ELSE [raised |-> FALSE, p |-> NaN]])
    IN  IF ~is_available(svc) THEN AllNone
        ELSE IF valid = {} THEN AllNone
        ELSE IF \E i \in valid : outs[i].raised THEN AllNone
        ELSE AsSeq([i \in 1..n |->
                 IF i \in valid THEN MLPrediction(svc, feature_dfs[i], outs[i].p)
                 ELSE NoPrediction])

(***************************************************************************)
(* SubjectPredictionService: rule-based estimate, fusion, reports.         *)
(***************************************************************************)
Prereqs(code) == IF code \in DOMAIN SUBJECT_PREREQUISITES THEN SUBJECT_PREREQUISITES[code] ELSE <<>>

SubjectsHas(subjects, code) == \E i \in 1..Len(subjects) : subjects[i].subject_code = code
SubjectsGet(subjects, code) ==
    subjects[CHOOSE i \in 1..Len(subjects) : subjects[i].subject_code = code]

\* The weighted sums that, accumulated in IEEE-754 doubles in prerequisite
\* order, land one ulp below a threshold their exact value equals.  Each entry
\* is the list of <<weight, grade points>> (tenths) of the graded prerequisites;
\* the list covers every prerequisite list of SUBJECT_PREREQUISITES and every
\* grade of GRADE_POINTS.
RoundsBelowThreshold ==
    { << <<7, 27>>, <<4, 27>> >>, << <<7, 37>>, <<5, 13>> >>,
      << <<8, 27>>, <<4, 27>> >>, << <<8, 33>>, <<4, 33>> >>,
      << <<8, 37>>, <<4, 7>> >> }

\* A prerequisite loop in which a prerequisite without a numeric grade, missing
\* or ungraded, weighs in with zero grade points.
AnalysePrereqsZeroFilled(code, student_subjects) ==
    LET prereqs    == Prereqs(code)
        Graded(p)  == /\ SubjectsHas(student_subjects, p[1])
                      /\ SubjectsGet(student_subjects, p[1]).grade_points # NoPoints
        Missing(p) == ~SubjectsHas(student_subjects, p[1])
        Perf(p)    == LET subj == SubjectsGet(student_subjects, p[1])
                      IN  [ subject_code |-> p[1], grade |-> subj.grade,
                            grade_points |-> subj.grade_points, weight |-> p[2] ]
        Code(p)    == p[1]
        Impact(e)  == e.grade_points * e.weight
        Weight(p)  == p[2]
        prereq_performance == Map(Filter(prereqs, Graded), Perf)
        total_weighted_score == SumSeq(Map(prereq_performance, Impact))
        total_weight         == SumSeq(Map(prereqs, Weight))
    IN  [ num_prerequisites   |-> Len(prereqs),
          prereq_performance  |-> prereq_performance,
          missing_prereqs     |-> Map(Filter(prereqs, Missing), Code),
          total_weight        |-> total_weight,
          weighted_prereq_gpa |-> IF total_weight > 0
                                  THEN Rat(total_weighted_score, 10 * total_weight)
                                  ELSE Rat(0, 1) ]

\* A prerequisite loop that reports every prerequisite without a numeric grade,
\* taken or not, as missing.
AnalysePrereqsUngradedMissing(code, student_subjects) ==
    LET prereqs    == Prereqs(code)
        Graded(p)  == /\ SubjectsHas(student_subjects, p[1])
                      /\ SubjectsGet(student_subjects, p[1]).grade_points # NoPoints
        Missing(p) == ~Graded(p)
        Perf(p)    == LET subj == SubjectsGet(student_subjects, p[1])
                      IN  [ subject_code |-> p[1], grade |-> subj.grade,
                            grade_points |-> subj.grade_points, weight |-> p[2] ]
        Code(p)    == p[1]
        Impact(e)  == e.grade_points * e.weight
        Weight(e)  == e.weight
        prereq_performance == Map(Filter(prereqs, Graded), Perf)
        total_weighted_score == SumSeq(Map(prereq_performance, Impact))
        total_weight         == SumSeq(Map(prereq_performance, Weight))
    IN  [ num_prerequisites   |-> Len(prereqs),
          prereq_performance  |-> prereq_performance,
          missing_prereqs     |-> Map(Filter(prereqs, Missing), Code),
          total_weight        |-> total_weight,
          weighted_prereq_gpa |-> IF total_weight > 0
                                  THEN Rat(total_weighted_score, 10 * total_weight)
                                  ELSE Rat(0, 1) ]

\* The prerequisite loop: graded prerequisites, missing prerequisites and the
\* weighted GPA.  A prerequisite taken without grade points is in neither list.
AnalysePrereqs(code, student_subjects) ==
    LET prereqs    == Prereqs(code)
        Graded(p)  == /\ SubjectsHas(student_subjects, p[1])
                      /\ SubjectsGet(student_subjects, p[1]).grade_points # NoPoints
        Missing(p) == ~SubjectsHas(student_subjects, p[1])
        Perf(p)    == LET subj == SubjectsGet(student_subjects, p[1])
                      IN  [ subject_code |-> p[1], grade |-> subj.grade,
                            grade_points |-> subj.grade_points, weight |-> p[2] ]
        Code(p)    == p[1]
        Impact(e)  == e.grade_points * e.weight
        Weight(e)  == e.weight
        prereq_performance == Map(Filter(prereqs, Graded), Perf)
        total_weighted_score == SumSeq(Map(prereq_performance, Impact))
        total_weight         == SumSeq(Map(prereq_performance, Weight))
    IN  [ num_prerequisites   |-> Len(prereqs),
          prereq_performance  |-> prereq_performance,
          missing_prereqs     |-> Map(Filter(prereqs, Missing), Code),
          total_weight        |-> total_weight,
          weighted_prereq_gpa |-> IF total_weight > 0
                                  THEN Rat(total_weighted_score, 10 * total_weight)
                                  ELSE Rat(0, 1) ]

\* weighted_prereq_gpa >= threshold, as the doubles compare.
GpaAtLeast(a, threshold) ==
    LET WeightAndPoints(e) == <<e.weight, e.grade_points>>
    IN  \/ RLt(threshold, a.weighted_prereq_gpa)
        \/ /\ a.weighted_prereq_gpa = threshold
           /\ Map(a.prereq_performance, WeightAndPoints) \notin RoundsBelowThreshold

\* A two-band rule: low from 2.0 upwards, very_high below.
RuleRiskLevelPassFail(a) ==
    IF GpaAtLeast(a, RISK_THRESHOLDS.high) THEN "low" ELSE "very_high"

RuleRiskLevel(a) ==
    IF GpaAtLeast(a, RISK_THRESHOLDS.low) THEN "low"
    ELSE IF GpaAtLeast(a, RISK_THRESHOLDS.medium) THEN "medium"
    ELSE IF GpaAtLeast(a, RISK_THRESHOLDS.high) THEN "high"
    ELSE "very_high"

\* The rule-based estimate with a default probability of 0.5.
RuleBasedHalfDefault(stats, code, student_subjects) ==
    LET a == AnalysePrereqs(code, student_subjects)
    IN  [ analysis         |-> a,
          cohort_pass_rate |-> CohortPassRate(stats, code),
          cohort_avg_score |-> CohortAvgScore(stats, code),
          success_prob     |-> Rat(1, 2),
          risk_level       |-> "unknown" ]

\* The rule-based estimate without the penalty for missing prerequisites.
RuleBasedNoPenalty(stats, code, student_subjects) ==
    With(AnalysePrereqs(code, student_subjects), LAMBDA a :
    With(CohortPassRate(stats, code), LAMBDA cohort_pass_rate :
    With(RAdd(Rat(1, 5), RMul(RDiv(a.weighted_prereq_gpa, Rat(4, 1)), Rat(3, 4))),
         LAMBDA base :
        [ analysis         |-> a,
          cohort_pass_rate |-> cohort_pass_rate,
          cohort_avg_score |-> CohortAvgScore(stats, code),
          success_prob     |-> IF a.total_weight = 0
                               THEN (IF cohort_pass_rate # NoneRat
                                     THEN cohort_pass_rate ELSE Rat(7, 10))
                               ELSE (IF cohort_pass_rate # NoneRat
                                     THEN RAdd(RMul(base, Rat(7, 10)),
                                               RMul(cohort_pass_rate, Rat(3, 10)))
                                     ELSE base),
          risk_level       |-> IF a.total_weight = 0 THEN "unknown"
                               ELSE RuleRiskLevel(a) ])))

\* The rule-based estimate of _predict_with_subjects, before the classifier.
RuleBased(stats, code, student_subjects) ==
    With(AnalysePrereqs(code, student_subjects), LAMBDA a :
    With(CohortPassRate(stats, code), LAMBDA cohort_pass_rate :
    With(RAdd(Rat(1, 5), RMul(RDiv(a.weighted_prereq_gpa, Rat(4, 1)), Rat(3, 4))),
         LAMBDA base :
    With(IF a.total_weight = 0
         THEN (IF cohort_pass_rate # NoneRat THEN cohort_pass_rate ELSE Rat(7, 10))
         ELSE (IF cohort_pass_rate # NoneRat
               THEN RAdd(RMul(base, Rat(7, 10)), RMul(cohort_pass_rate, Rat(3, 10)))
               ELSE base), LAMBDA prob0 :
    With(IF a.total_weight = 0 THEN "unknown" ELSE RuleRiskLevel(a), LAMBDA risk0 :
    With(a.missing_prereqs # <<>>, LAMBDA missing :
        [ analysis         |-> a,
          cohort_pass_rate |-> cohort_pass_rate,
          cohort_avg_score |-> CohortAvgScore(stats, code),
          success_prob     |-> IF missing THEN RMul(prob0, Rat(4, 5)) ELSE prob0,
          risk_level       |-> IF missing /\ risk0 = "low" THEN "medium"
                               ELSE IF missing /\ risk0 = "medium" THEN "high"
                               ELSE risk0 ]))))))

\* The feature dictionaries handed to the classifier for one target subject.
MlInput(stats, code, a, student_features) ==
    LET Points(e) == Tenths(e.grade_points)
        gps       == Map(a.prereq_performance, Points)
        Least(s)  == CHOOSE x \in Range(s) : \A y \in Range(s) : RLe(x, y)
        Most(s)   == CHOOSE x \in Range(s) : \A y \in Range(s) : RLe(y, x)
        some      == gps # <<>>
        cpr       == CohortPassRate(stats, code)
        cas       == CohortAvgScore(stats, code)
    IN  [ student_features |-> student_features,
          prereq_features  |->
            [ num_prerequisites           |-> a.num_prerequisites,
              num_prerequisites_completed |-> Len(a.prereq_performance),
              num_prerequisites_missing   |-> Len(a.missing_prereqs),
              avg_prereq_grade_points     |-> IF some THEN Mean(gps) ELSE Rat(0, 1),
              weighted_prereq_gpa         |-> a.weighted_prereq_gpa,
              min_prereq_grade            |-> IF some THEN Least(gps) ELSE Rat(0, 1),
              max_prereq_grade            |-> IF some THEN Most(gps) ELSE Rat(0, 1) ],
          cohort_features  |->
            [ subject_pass_rate      |-> IF cpr # NoneRat THEN cpr ELSE Rat(1, 2),
              subject_avg_score      |-> IF cas # NoneRat THEN cas ELSE Rat(50, 1),
              subject_avg_gpa        |-> IF code \in DOMAIN stats THEN stats[code].avg_gpa ELSE Rat(2, 1),
              subject_total_students |-> IF code \in DOMAIN stats THEN stats[code].total_students ELSE 0 ],
          subject_code     |-> code ]

\* ml_top_factors = None (an empty ranking is <<>>; a digest is never negative).
NoFactors == <<-1>>

Clamp01(x) == RMin(RMax(x, Rat(0, 1)), Rat(1, 1))

\* The fusion with the two weights exchanged.
FuseSwapped(code, rule, ml_pred) ==
    LET hybrid == ml_pred # NoPrediction
        prob   == IF hybrid
                  THEN RAdd(RMul(ml_pred.success_probability, Rat(3, 10)),
                            RMul(rule.success_prob, Rat(7, 10)))
                  ELSE rule.success_prob
    IN  [ subject_code        |-> code,
          risk_level          |-> IF hybrid THEN ml_pred.risk_level ELSE rule.risk_level,
          predicted_success_probability |-> Clamp01(prob),
          weighted_prereq_gpa |-> rule.analysis.weighted_prereq_gpa,
          prereq_performance  |-> rule.analysis.prereq_performance,
          missing_prereqs     |-> rule.analysis.missing_prereqs,
          cohort_pass_rate    |-> rule.cohort_pass_rate,
          cohort_avg_score    |-> rule.cohort_avg_score,
          ml_probability      |-> IF hybrid THEN ml_pred.success_probability ELSE NoneRat,
          ml_confidence       |-> IF hybrid THEN ml_pred.confidence ELSE NoneRat,
          ml_top_factors      |-> IF hybrid THEN ml_pred.top_factors ELSE NoFactors,
          prediction_method   |-> IF hybrid THEN "hybrid" ELSE "rule-based" ]

\* The fusion step and the SubjectPrediction built from it.
Fuse(code, rule, ml_pred) ==
    LET hybrid == ml_pred # NoPrediction
        prob   == IF hybrid
                  THEN RAdd(RMul(ml_pred.success_probability, Rat(7, 10)),
                            RMul(rule.success_prob, Rat(3, 10)))
                  ELSE rule.success_prob
    IN  [ subject_code        |-> code,
          risk_level          |-> IF hybrid THEN ml_pred.risk_level ELSE rule.risk_level,
          predicted_success_probability |-> Clamp01(prob),
          weighted_prereq_gpa |-> rule.analysis.weighted_prereq_gpa,
          prereq_performance  |-> rule.analysis.prereq_performance,
          missing_prereqs     |-> rule.analysis.missing_prereqs,
          cohort_pass_rate    |-> rule.cohort_pass_rate,
          cohort_avg_score    |-> rule.cohort_avg_score,
          ml_probability      |-> IF hybrid THEN ml_pred.success_probability ELSE NoneRat,
          ml_confidence       |-> IF hybrid THEN ml_pred.confidence ELSE NoneRat,
          ml_top_factors      |-> IF hybrid THEN ml_pred.top_factors ELSE NoFactors,
          prediction_method   |-> IF hybrid THEN "hybrid" ELSE "rule-based" ]

\* _predict_with_subjects: the prediction and the performance cache it leaves.
predict_with_subjects(svc, stats, perf_cache, student_id, code, student_subjects, precomputed_ml) ==
    With(RuleBased(stats, code, student_subjects), LAMBDA rule :
    With(precomputed_ml = NoPrediction /\ MlUsable(svc), LAMBDA ask :
    With(get_cached_student_performance(perf_cache, student_id, student_subjects),
         LAMBDA cached :
        [ pred       |-> Fuse(code, rule,
                              IF ask
                              THEN predict(svc, MlInput(stats, code, rule.analysis,
                                                        cached.perf))
                              ELSE precomputed_ml),
          perf_cache |-> IF ask THEN cached.cache ELSE perf_cache ])))

\* predict_subject_success.
predict_subject_success(d, svc, stats, cache, perf_cache, student_id, code) ==
    With(get_student_subjects(d, cache, student_id), LAMBDA got :
    With(predict_with_subjects(svc, stats, perf_cache, student_id, code,
                               got.subjects, NoPrediction), LAMBDA out :
        [pred |-> out.pred, student_cache |-> got.cache, perf_cache |-> out.perf_cache]))

\* risk_order.get(p.risk_level, 2)
risk_order(level) ==
    CASE level = "low"       -> 0
      [] level = "medium"    -> 1
      [] level = "high"      -> 2
      [] level = "very_high" -> 3
      [] level = "unknown"   -> 1
      [] OTHER               -> 2

\* The insertion of a sort in descending order (reverse=True).
InsertDescending(sorted, p) ==
    LET k == Cardinality({i \in 1..Len(sorted) :
                             risk_order(sorted[i].risk_level) >= risk_order(p.risk_level)})
    IN  SubSeq(sorted, 1, k) \o <<p>> \o SubSeq(sorted, k + 1, Len(sorted))

\* Insert p behind every element whose key is not greater: sorted() is stable.
InsertStable(sorted, p) ==
    LET k == Cardinality({i \in 1..Len(sorted) :
                             risk_order(sorted[i].risk_level) <= risk_order(p.risk_level)})
    IN  SubSeq(sorted, 1, k) \o <<p>> \o SubSeq(sorted, k + 1, Len(sorted))

RECURSIVE SortedByRisk(_, _)
SortedByRisk(preds, acc) ==
    IF preds = <<>> THEN acc
    ELSE SortedByRisk(Tail(preds), InsertStable(acc, Head(preds)))

\* The index whose result {code: result for code, result in zip(...)} keeps
\* for a code: the last one.
LastIndexOf(codes, code) ==
    CHOOSE i \in 1..Len(codes) :
        /\ codes[i] = code
        /\ \A j \in (i + 1)..Len(codes) : codes[j] # code

\* predict_multiple_subjects: the report and the caches it leaves.  The map of
\* batch results stays empty when the classifier is not usable.  student_id is
\* in the performance cache before the per-subject calls, which hit it and
\* leave it as it is.
predict_multiple_subjects(d, svc, stats, cache, perf_cache, student_id, target_subject_codes) ==
    LET n            == Len(target_subject_codes)
        HasPoints(s) == s.grade_points # NoPoints
        Points(s)    == Tenths(s.grade_points)
        HighRisk(p)  == p.risk_level \in {"high", "very_high"}
        Code(p)      == p.subject_code
    IN
    With(get_student_subjects(d, cache, student_id), LAMBDA got :
    With(Map(Filter(got.subjects, HasPoints), Points), LAMBDA gpas :
    With(get_cached_student_performance(perf_cache, student_id, got.subjects),
         LAMBDA cached :
    With(predict_batch(svc, AsSeq([i \in 1..n |->
                          MlInput(stats, target_subject_codes[i],
                                  AnalysePrereqs(target_subject_codes[i], got.subjects),
                                  cached.perf)])), LAMBDA ml_results :
    With(AsSeq([i \in 1..n |->
                  predict_with_subjects(
                      svc, stats, cached.cache, student_id, target_subject_codes[i],
                      got.subjects,
                      IF ~MlUsable(svc) THEN NoPrediction
                      ELSE ml_results[LastIndexOf(target_subject_codes,
                                                  target_subject_codes[i])]).pred]),
         LAMBDA predictions :
        [ report |->
            [ student_id         |-> student_id,
              current_gpa        |-> IF gpas # <<>> THEN Mean(gpas) ELSE Rat(0, 1),
              predictions        |-> predictions,
              high_risk_subjects |-> Map(Filter(predictions, HighRisk), Code),
              recommended_order  |-> Map(SortedByRisk(predictions, <<>>), Code) ],
          student_cache |-> got.cache,
          perf_cache    |-> cached.cache ])))))

(***************************************************************************)
(* Calls of the prediction service.                                        *)
(***************************************************************************)
CodeLists ==
    { << >>,
      <<"NET2201", "PRG1203">>,
      <<"BIS3216", "ZZZ9999", "BIS3216">>,
      <<"NET2201", "PRG2104", "CSC1024", "PRG1203">> }

PredictSubjectSuccess(student_id, code) ==
    \E out \in {predict_subject_success(df, ml_service, cohort_stats, student_cache,
                                        student_perf_cache, student_id, code)} :
        /\ student_cache' = out.student_cache
        /\ student_perf_cache' = out.perf_cache
        /\ predResp' = [ op |-> "predict_subject_success", student_id |-> student_id,
                         codes |-> <<code>>, body |-> out.pred ]
        /\ UNCHANGED <<df, cohort_stats, ml_service, catVars, mlVars, chainVars, engVars, srvVars>>

PredictMultipleSubjects(student_id, codes) ==
    \E out \in {predict_multiple_subjects(df, ml_service, cohort_stats, student_cache,
                                          student_perf_cache, student_id, codes)} :
        /\ student_cache' = out.student_cache
        /\ student_perf_cache' = out.perf_cache
        /\ predResp' = [ op |-> "predict_multiple_subjects", student_id |-> student_id,
                         codes |-> codes, body |-> out.report ]
        /\ UNCHANGED <<df, cohort_stats, ml_service, catVars, mlVars, chainVars, engVars, srvVars>>

(***************************************************************************)
(* Direct calls of the classifier adapter.                                 *)
(***************************************************************************)
MaxBatch == 2

\* Feature dictionaries as the prediction service builds them from the data set.
BatchInputs ==
    LET stats == compute_cohort_stats([loaded |-> TRUE, rows |-> DatasetRows])
        Input(student_id, code) ==
            LET subjects == ParseRows(DatasetRows[student_id], <<>>)
            IN  MlInput(stats, code, AnalysePrereqs(code, subjects),
                        calculate_student_performance_features(subjects))
    IN  { Input(1, "PRG1203"), Input(1, "BIS3216"), Input(2, "PRG1203"), Input(3, "ZZZ9999") }

Batches == UNION { [1..n -> BatchInputs] : n \in 0..MaxBatch }

MlPredict(data) ==
    /\ mlResp' = [ op |-> "predict", inputs |-> <<data>>,
                   results |-> <<predict(ml_service, data)>> ]
    /\ UNCHANGED <<catVars, predVars, chainVars, engVars, srvVars>>

MlPredictBatch(predictions_data) ==
    /\ mlResp' = [ op |-> "predict_batch", inputs |-> predictions_data,
                   results |-> predict_batch(ml_service, predictions_data) ]
    /\ UNCHANGED <<catVars, predVars, chainVars, engVars, srvVars>>

(***************************************************************************)
(* get_prerequisite_chain and the two lookup routes                        *)
(* (backend/app/routes/subject_prediction.py).  The recursion of traverse  *)
(* is an explicit stack of frames [code, depth, next]: next = 0 before the *)
(* guard of the call has run, and otherwise the index of the prerequisite  *)
(* the loop handles next.  `graph` is the table SUBJECT_PREREQUISITES.     *)
(***************************************************************************)
MaxDepth == 5

GraphPrereqs(g, code) == IF code \in DOMAIN g THEN g[code] ELSE <<>>

Idle == [ status |-> "idle", subject_code |-> "", stack |-> <<>>, visited |-> {},
          direct_prerequisites |-> <<>>, full_chain |-> <<>> ]

NoLookup == [op |-> "none", code |-> "", status |-> 0, body |-> <<>>]

Frame(code, depth, next) == [code |-> code, depth |-> depth, next |-> next]

Pop(stack) == SubSeq(stack, 1, Len(stack) - 1)
Top(stack) == stack[Len(stack)]

\* The route is entered: chain = {...}; visited = set(); traverse(subject_code).
ChainStart(subject_code) ==
    /\ traversal.status # "running"
    /\ traversal' = [ status |-> "running", subject_code |-> subject_code,
                      stack |-> <<Frame(subject_code, 0, 0)>>, visited |-> {},
                      direct_prerequisites |-> <<>>, full_chain |-> <<>> ]
    /\ lookupResp' = NoLookup
    /\ UNCHANGED <<graph, catVars, predVars, mlVars, engVars, srvVars>>

\* The guard of traverse without the visited set.
TraverseEnterDepthOnly ==
    /\ traversal.status = "running"
    /\ traversal.stack # <<>>
    /\ Top(traversal.stack).next = 0
    /\ LET f == Top(traversal.stack)
       IN  IF f.depth > MaxDepth
           THEN traversal' = [traversal EXCEPT !.stack = Pop(@)]
           ELSE traversal' = [traversal EXCEPT
                                 !.visited = @ \cup {f.code},
                                 !.stack = Pop(@) \o <<Frame(f.code, f.depth, 1)>>]
    /\ UNCHANGED <<graph, lookupResp, catVars, predVars, mlVars, engVars, srvVars>>

\* if code in visited or depth > 5: return; visited.add(code)
TraverseEnter ==
    /\ traversal.status = "running"
    /\ traversal.stack # <<>>
    /\ Top(traversal.stack).next = 0
    /\ LET f == Top(traversal.stack)
       IN  IF f.code \in traversal.visited \/ f.depth > MaxDepth
           THEN traversal' = [traversal EXCEPT !.stack = Pop(@)]
           ELSE traversal' = [traversal EXCEPT
                                 !.visited = @ \cup {f.code},
                                 !.stack = Pop(@) \o <<Frame(f.code, f.depth, 1)>>]
    /\ UNCHANGED <<graph, lookupResp, catVars, predVars, mlVars, engVars, srvVars>>

\* One round of the for loop: record the prerequisite and call traverse on it;
\* the frame returns when the list is exhausted.
TraverseLoop ==
    /\ traversal.status = "running"
    /\ traversal.stack # <<>>
    /\ Top(traversal.stack).next > 0
    /\ LET f           == Top(traversal.stack)
           prereq_list == GraphPrereqs(graph, f.code)
       IN  IF f.next > Len(prereq_list)
           THEN traversal' = [traversal EXCEPT !.stack = Pop(@)]
           ELSE LET p == prereq_list[f.next]
                IN  traversal' = [traversal EXCEPT
                        !.direct_prerequisites =
                            IF f.depth = 0
                            THEN Append(@, [code |-> p[1], weight |-> p[2]])
                            ELSE @,
                        !.full_chain = Append(@, [code |-> p[1], depth |-> f.depth + 1]),
                        !.stack = Pop(@) \o <<Frame(f.code, f.depth, f.next + 1),
                                              Frame(p[1], f.depth + 1, 0)>>]
    /\ UNCHANGED <<graph, lookupResp, catVars, predVars, mlVars, engVars, srvVars>>

\* traverse(subject_code) has returned: the route answers with the chain.
ChainReturn ==
    /\ traversal.status = "running"
    /\ traversal.stack = <<>>
    /\ traversal' = [traversal EXCEPT !.status = "done"]
    /\ lookupResp' = [ op |-> "get_prerequisite_chain", code |-> traversal.subject_code,
                       status |-> 200,
                       body |-> [ direct_prerequisites |-> traversal.direct_prerequisites,
                                  full_chain |-> traversal.full_chain ] ]
    /\ UNCHANGED <<graph, catVars, predVars, mlVars, engVars, srvVars>>

\* A cohort lookup that answers an unknown code with empty statistics.
GetCohortStatsDefault(subject_code) ==
    /\ traversal.status # "running"
    /\ lookupResp' =
          [ op |-> "get_cohort_stats", code |-> subject_code, status |-> 200,
            body |-> IF subject_code \in DOMAIN cohort_stats
                     THEN cohort_stats[subject_code]
                     ELSE [ pass_rate |-> NoneRat, avg_score |-> NoneRat,
                            avg_gpa |-> NoneRat, total_students |-> 0 ] ]
    /\ UNCHANGED <<graph, traversal, catVars, predVars, mlVars, engVars, srvVars>>

\* GET /cohort-stats/{subject_code}: 404 when the service holds no statistics.
GetCohortStats(subject_code) ==
    /\ traversal.status # "running"
    /\ lookupResp' =
          IF subject_code \in DOMAIN cohort_stats
          THEN [ op |-> "get_cohort_stats", code |-> subject_code, status |-> 200,
                 body |-> cohort_stats[subject_code] ]
          ELSE [ op |-> "get_cohort_stats", code |-> subject_code, status |-> 404,
                 body |-> <<>> ]
    /\ UNCHANGED <<graph, traversal, catVars, predVars, mlVars, engVars, srvVars>>

\* The graphs the traversal is run on: the shipped table and hand-made tables
\* with a self-loop, cycles, and a chain longer than the depth cap.
Graphs ==
    { SUBJECT_PREREQUISITES,
      ("A" :> << <<"A", 5>> >>),
      ("A" :> << <<"B", 5>> >>) @@ ("B" :> << <<"A", 5>> >>),
      ("A" :> << <<"B", 5>>, <<"C", 5>> >>) @@ ("B" :> << <<"C", 5>>, <<"A", 5>> >>) @@
          ("C" :> << <<"A", 5>>, <<"B", 5>>, <<"C", 5>> >>),
      ("N0" :> << <<"N1", 9>> >>) @@ ("N1" :> << <<"N2", 9>> >>) @@
          ("N2" :> << <<"N3", 9>> >>) @@ ("N3" :> << <<"N4", 9>> >>) @@
          ("N4" :> << <<"N5", 9>> >>) @@ ("N5" :> << <<"N6", 9>> >>) @@
          ("N6" :> << <<"N7", 9>>, <<"N0", 4>> >>) @@ ("N7" :> << <<"N8", 9>> >>) }

GraphCodes(g) ==
    DOMAIN g \cup UNION { {g[c][i][1] : i \in 1..Len(g[c])} : c \in DOMAIN g }

UnknownCode == "ZZZ9999"

(***************************************************************************)
(* Specifications                                                          *)
(***************************************************************************)
NoResp == [op |-> "none", key |-> <<"", "">>, status |-> 0, body |-> <<>>]
NoPred == [op |-> "none", student_id |-> 0, codes |-> <<>>, body |-> <<>>]
NoMl   == [op |-> "none", inputs |-> <<>>, results |-> <<>>]

CatInit ==
    /\ VARIANTS_CACHE = [loaded |-> FALSE, variants |-> <<>>]
    /\ ELECTIVES_CACHE = <<>>
    /\ catResp = NoResp

\* SubjectPredictionService.__init__: _load_data, then _load_ml_service.
PredInit ==
    /\ df \in Datasets
    /\ cohort_stats = compute_cohort_stats(df)
    /\ ml_service \in MlServices
    /\ student_cache = <<>>
    /\ student_perf_cache = <<>>
    /\ predResp = NoPred

PredIdle ==
    /\ df = [loaded |-> FALSE, rows |-> NoRows]
    /\ cohort_stats = compute_cohort_stats(df)
    /\ ml_service = MlService(FALSE, 0, FALSE, FALSE, FALSE)
    /\ student_cache = <<>>
    /\ student_perf_cache = <<>>
    /\ predResp = NoPred

MlIdle == mlResp = NoMl

NoEngine == [programme |-> <<>>, op |-> "none", args |-> <<>>, result |-> <<>>]

EngineIdle == engine = NoEngine

\* The requests the server takes in one run.
MaxRequests == 3
Requests == 1..MaxRequests

\* A request the server has not seen.
NoTask == [pc |-> "none", key |-> <<"", "">>, cold |-> FALSE, built |-> FALSE,
           status |-> 0, variants |-> <<>>]

ServerIdle == tasks = [r \in Requests |-> NoTask]

ChainIdle ==
    /\ graph = SUBJECT_PREREQUISITES
    /\ traversal = Idle
    /\ lookupResp = NoLookup

CatNext ==
    \/ ListVariants
    \/ \E key \in RequestKeys : GetVariantCourses(key)
    \/ \E key \in ElectiveRequestKeys : GetVariantElectives(key)
    \/ \E key \in RequestKeys :
       \E completed \in CompletedSets(get_variants(VARIANTS_CACHE).variants, key) :
           ComputeProgress(key, completed)
    \/ \E key \in WhatIfRequestKeys : \E planned \in PlannedLists :
       \E completed \in {{}, {"ENG1044", "CSC1024"}} : \E metrics \in MetricsInputs :
           WhatIfAnalysis(key, planned, completed, metrics)

InitCatalog == CatInit /\ PredIdle /\ MlIdle /\ ChainIdle /\ EngineIdle /\ ServerIdle

SpecCatalog == InitCatalog /\ [][CatNext]_vars

PredNext ==
    \/ \E student_id \in Students : \E code \in TargetCodes :
           PredictSubjectSuccess(student_id, code)
    \/ \E student_id \in Students : \E codes \in CodeLists :
           PredictMultipleSubjects(student_id, codes)

InitPredict == CatInit /\ PredInit /\ MlIdle /\ ChainIdle /\ EngineIdle /\ ServerIdle

SpecPredict == InitPredict /\ [][PredNext]_vars

BatchInit ==
    /\ df = [loaded |-> FALSE, rows |-> NoRows]
    /\ cohort_stats = compute_cohort_stats(df)
    /\ ml_service \in MlServices
    /\ student_cache = <<>>
    /\ student_perf_cache = <<>>
    /\ predResp = NoPred
    /\ mlResp = NoMl

BatchNext ==
    \/ \E data \in BatchInputs : MlPredict(data)
    \/ \E predictions_data \in Batches : MlPredictBatch(predictions_data)

InitBatch == CatInit /\ BatchInit /\ ChainIdle /\ EngineIdle /\ ServerIdle

SpecBatch == InitBatch /\ [][BatchNext]_vars

ChainInit ==
    /\ graph \in Graphs
    /\ traversal = Idle
    /\ lookupResp = NoLookup
    /\ df \in Datasets
    /\ cohort_stats = compute_cohort_stats(df)
    /\ ml_service = MlService(TRUE, 0, TRUE, TRUE, FALSE)
    /\ student_cache = <<>>
    /\ student_perf_cache = <<>>
    /\ predResp = NoPred

LookupCodes == TargetCodes \cup {"SEG1201"}

ChainNext ==
    \/ \E code \in GraphCodes(graph) \cup {UnknownCode} : ChainStart(code)
    \/ TraverseEnter
    \/ TraverseLoop
    \/ ChainReturn
    \/ \E code \in LookupCodes : GetCohortStats(code)

InitChain == CatInit /\ MlIdle /\ ChainInit /\ EngineIdle /\ ServerIdle

SpecChain == InitChain /\ [][ChainNext]_vars

\* A running request is not suspended: the route holds no await.
SpecChainFair == SpecChain /\ WF_vars(TraverseEnter \/ TraverseLoop \/ ChainReturn)

(***************************************************************************)
(* RiskEngine called directly, as demo() of catalog/test_bcs_programs.py  *)
(* calls it: engine = RiskEngine(v).                                       *)
(***************************************************************************)
\* A variant assembled the way build_variant assembles one, from a smaller
\* curriculum whose prerequisite graph is filled in: an elective option that is
\* also a required course, an option listed by two groups, a course with an
\* empty prerequisite list.
StudyPlan ==
    [programme_code |-> "BCS", intake_code |-> "209901", entry_type |-> "normal",
     semesters |->
        << [semester_number |-> 1,
            required_courses |-> << Course("CSC1024", 4, 1, "core", None, FALSE),
                                    Course("ENG1044", 4, 1, "core", None, FALSE) >>],
           [semester_number |-> 2,
            required_courses |-> << Course("PRG1203", 4, 2, "core", None, FALSE),
                                    Course("NET1014", 4, 2, "core", None, FALSE) >>],
           [semester_number |-> 3,
            required_courses |-> << Course("PRG2104", 4, 3, "core", None, FALSE) >>] >>,
     elective_groups |->
        << [group_code |-> "D1Y2", year_level |-> 2,
            options |-> << Course("PRG2214", 4, 0, "elective-discipline", "D1Y2", FALSE),
                           Course("PRG1203", 4, 0, "elective-discipline", "D1Y2", FALSE) >>],
           [group_code |-> "D4Y3", year_level |-> 3,
            options |-> << Course("PRG2214", 4, 0, "elective-discipline", "D4Y3", FALSE),
                           Course("SEC3024", 3, 0, "elective-discipline", "D4Y3", FALSE) >>] >>,
     prerequisite_graph |->
        ("PRG1203" :> <<"CSC1024">>) @@
        ("PRG2104" :> <<"PRG1203", "CSC1024">>) @@
        ("PRG2214" :> <<"PRG1203", "CSC1024", "ENG1044">>) @@
        ("NET1014" :> <<>>),
     choice_pairs |-> <<>>,
     discipline_elective_placeholders |-> <<>>,
     free_elective_placeholders |-> <<>>]

\* A variant as the constructor leaves it (build_variant, line 178): every
\* list and mapping empty.
EmptyPlan ==
    [programme_code |-> "BCS", intake_code |-> "209902", entry_type |-> "direct",
     semesters |-> <<>>, elective_groups |-> <<>>, prerequisite_graph |-> <<>>,
     choice_pairs |-> <<>>, discipline_elective_placeholders |-> <<>>,
     free_elective_placeholders |-> <<>>]

\* A variant that holds elective placeholder slots only, as the placeholder loop
\* of build_variant adds them: courses that carry credits but count for none.
PlaceholderPlan ==
    [EmptyPlan EXCEPT
        !.intake_code = "209903",
        !.semesters =
            << [semester_number |-> 4,
                required_courses |->
                    << Course("D1Y2", 4, 4, "elective-discipline", None, TRUE),
                       Course("*F1", 4, 4, "elective-free", None, TRUE) >>] >>,
        !.discipline_elective_placeholders = <<"D1Y2">>,
        !.free_elective_placeholders = <<"*F1">>]

\* The programmes an engine is made for: demo()'s variant, StudyPlan and the two
\* variants without a credit.
Programmes == {build_variant(<<"202301", "normal">>), StudyPlan, EmptyPlan, PlaceholderPlan}

\* The courses of a programme a direct compute_course_risk call is made for.
EngineCourses(v) ==
    {c \in Range(list_all_courses(v)) :
        c.subject_code \in {"CSC1024", "ENG1044", "PRG1203", "NET1014", "PRG2104",
                            "PRG2214", "SEC3024", "SEG1201"}}

\* student_metrics of a direct call: demo()'s, the lowest, a mid-range student
\* with a planned load, one on the band thresholds, one with an overload.
EngineMetrics ==
    {[cgpa |-> Rat(32, 10), attendance |-> Rat(92, 1), gpa_trend |-> Rat(1, 10),
      planned_credits |-> Rat(0, 1)],
     [cgpa |-> Rat(0, 1), attendance |-> Rat(0, 1), gpa_trend |-> Rat(-1, 1),
      planned_credits |-> Rat(0, 1)],
     [cgpa |-> Rat(2, 1), attendance |-> Rat(80, 1), gpa_trend |-> Rat(0, 1),
      planned_credits |-> Rat(12, 1)],
     [cgpa |-> Rat(4, 1), attendance |-> Rat(0, 1), gpa_trend |-> Rat(-1, 1),
      planned_credits |-> Rat(0, 1)],
     [cgpa |-> Rat(3, 1), attendance |-> Rat(75, 1), gpa_trend |-> Rat(1, 2),
      planned_credits |-> Rat(30, 1)]}

EngineCompleted ==
    {{}, {"CSC1024"}, {"CSC1024", "PRG1203", "ENG1044"},
     {"ENG1044", "CSC1202", "MTH1114", "CSC1024"}}

EnginePlanned ==
    {<<>>, <<"PRG1203", "SEG1201", "NET1014">>, <<"PRG2104", "PRG2214", "ZZZ9999">>,
     <<"PRG1203", "PRG1203", "NET1014">>, <<"CSC1024", "PRG2104">>}

\* engine = RiskEngine(v)
EngineInit ==
    \E v \in Programmes :
        engine = [programme |-> v, op |-> "none", args |-> <<>>, result |-> <<>>]

\* engine.compute_course_risk(course, student_metrics, completed)
EngineComputeCourseRisk(course, student_metrics, completed) ==
    /\ engine' = [engine EXCEPT !.op = "compute_course_risk",
                                !.args = [course |-> course,
                                          student_metrics |-> student_metrics,
                                          completed |-> completed],
                                !.result = compute_course_risk(engine.programme, course,
                                                               student_metrics, completed)]
    /\ UNCHANGED <<catVars, predVars, mlVars, chainVars, srvVars>>

\* engine.what_if(planned_codes, student_metrics, completed).  The call binds a
\* new dict to its local name (line 173); metrics_after is the caller's mapping
\* when the call has returned.
EngineWhatIf(planned_codes, student_metrics, completed) ==
    /\ engine' = [engine EXCEPT !.op = "what_if",
                                !.args = [planned_codes |-> planned_codes,
                                          student_metrics |-> student_metrics,
                                          completed |-> completed,
                                          metrics_after |-> student_metrics],
                                !.result = what_if(engine.programme, planned_codes,
                                                   student_metrics, completed)]
    /\ UNCHANGED <<catVars, predVars, mlVars, chainVars, srvVars>>

\* engine.programme.compute_progress(completed_codes), as __main__ of
\* bcs_programs.py and demo() call it on a variant.
EngineComputeProgress(completed_codes) ==
    /\ engine' = [engine EXCEPT !.op = "compute_progress",
                                !.args = [completed_codes |-> completed_codes],
                                !.result = compute_progress(engine.programme,
                                                            completed_codes)]
    /\ UNCHANGED <<catVars, predVars, mlVars, chainVars, srvVars>>

EngineNext ==
    \/ \E completed \in EngineCompleted \cup {{"D1Y2"}} : EngineComputeProgress(completed)
    \/ \E course \in EngineCourses(engine.programme) :
       \E metrics \in EngineMetrics : \E completed \in EngineCompleted :
           EngineComputeCourseRisk(course, metrics, completed)
    \/ \E planned \in EnginePlanned : \E metrics \in EngineMetrics :
       \E completed \in EngineCompleted :
           EngineWhatIf(planned, metrics, completed)

InitEngine == CatInit /\ PredIdle /\ MlIdle /\ ChainIdle /\ EngineInit /\ ServerIdle

SpecEngine == InitEngine /\ [][EngineNext]_vars

(***************************************************************************)
(* The catalogue routes under concurrent requests.  Every route is an      *)
(* `async def` that calls get_variants() and awaits nothing: the server    *)
(* (uvicorn.run(app), one process, one event loop) accepts requests in any *)
(* number before a handler runs, and runs each handler task from its first *)
(* line to its return without another task in between.                     *)
(***************************************************************************)
\* A get_variants that builds on every call.
get_variants_call_rebuilding(cache) ==
    [cache |-> [loaded |-> TRUE, variants |-> load_bcs_variants], built |-> TRUE]

\* One call of get_variants: the cache it leaves, and whether line 22
\* (load_bcs_variants) ran.
get_variants_call(cache) ==
    [cache |-> get_variants(cache), built |-> ~cache.loaded]

\* The keys the concurrent requests ask for.
ServedKeys == {<<"202301", "normal">>, <<"202309", "precalc">>, <<"202309", "direct">>}

\* The server accepts a request for /variant/{variant_key}/courses and
\* creates its handler task; `cold` records that no catalogue was built yet.
AcceptRequest(r, key) ==
    /\ tasks[r].pc = "none"
    /\ tasks' = [tasks EXCEPT ![r] = [NoTask EXCEPT !.pc = "pending", !.key = key,
                                                    !.cold = ~VARIANTS_CACHE.loaded]]
    /\ UNCHANGED <<catVars, predVars, mlVars, chainVars, engVars>>

\* The event loop runs the handler task of request r: variants = get_variants(),
\* the key test, the answer.
RunHandler(r) ==
    /\ tasks[r].pc = "pending"
    /\ \E call \in {get_variants_call(VARIANTS_CACHE)} :
          /\ VARIANTS_CACHE' = call.cache
          /\ tasks' = [tasks EXCEPT ![r] =
                          [@ EXCEPT !.pc = "done",
                                    !.built = call.built,
                                    !.variants = call.cache.variants,
                                    !.status = IF tasks[r].key \in DOMAIN call.cache.variants
                                               THEN 200 ELSE 404]]
          /\ catResp' = IF tasks[r].key \notin DOMAIN call.cache.variants
                        THEN NotFound("get_variant_courses", tasks[r].key)
                        ELSE Ok("get_variant_courses", tasks[r].key,
                                list_all_courses(call.cache.variants[tasks[r].key]))
    /\ UNCHANGED <<ELECTIVES_CACHE, predVars, mlVars, chainVars, engVars>>

ServeNext ==
    \/ \E r \in Requests : \E key \in ServedKeys : AcceptRequest(r, key)
    \/ \E r \in Requests : RunHandler(r)

InitServe == CatInit /\ PredIdle /\ MlIdle /\ ChainIdle /\ EngineIdle /\ ServerIdle

SpecServe == InitServe /\ [][ServeNext]_vars

(***************************************************************************)
(* Properties                                                              *)
(***************************************************************************)

\* C1: for every built variant, compute_progress over the codes of all its
\* non-placeholder courses reports completed_credits = total_credits,
\* percent_complete = 100.0, no core course remaining and no either-pair
\* remaining.  (percent_complete is held in hundredths of a percent.)
C1_FullCompletionLeavesNothing ==
    ( /\ catResp.op = "compute_progress"
      /\ catResp.status = 200
      /\ catResp.body.completed_codes =
             all_non_placeholder_codes(VARIANTS_CACHE.variants[catResp.key]) )
    => LET r == catResp.body.report
       IN  /\ r.completed_credits = r.total_credits
           /\ r.percent_complete = 10000
           /\ r.core_remaining = <<>>
           /\ r.either_pairs_remaining = <<>>

\* What the last prediction call answered, one entry per requested code.
RespPredictions ==
    IF predResp.op = "predict_subject_success" THEN <<predResp.body>>
    ELSE IF predResp.op = "predict_multiple_subjects" THEN predResp.body.predictions
    ELSE <<>>

\* The student's parsed record and the classifier input, straight from the data.
RecordOf(student_id) == IF df.loaded THEN ParseRows(df.rows[student_id], <<>>) ELSE <<>>

RuleOf(student_id, code) == RuleBased(cohort_stats, code, RecordOf(student_id))

ScoreOf(student_id, code) ==
    IF ~MlUsable(ml_service) THEN NoPrediction
    ELSE predict(ml_service,
                 MlInput(cohort_stats, code, AnalysePrereqs(code, RecordOf(student_id)),
                         calculate_student_performance_features(RecordOf(student_id))))

ClassifierBand(p) ==
    IF RLe(Rat(80, 100), p) THEN "low"
    ELSE IF RLe(Rat(65, 100), p) THEN "medium"
    ELSE IF RLe(Rat(50, 100), p) THEN "high"
    ELSE "very_high"

\* C2: when the classifier gives a score for the (student, subject) pair the
\* prediction is 0.7 x score + 0.3 x rule probability, its risk level is the
\* classifier's band of the score and its method is 'hybrid'; without a score
\* the method is 'rule-based' and probability and risk level are the rule-based
\* ones.
C2_HybridFusion ==
    \A i \in 1..Len(RespPredictions) :
        LET p     == RespPredictions[i]
            rule  == RuleOf(predResp.student_id, predResp.codes[i])
            score == ScoreOf(predResp.student_id, predResp.codes[i])
        IN  IF score # NoPrediction
            THEN /\ p.prediction_method = "hybrid"
                 /\ p.predicted_success_probability =
                        RAdd(RMul(score.success_probability, Rat(7, 10)),
                             RMul(rule.success_prob, Rat(3, 10)))
                 /\ p.risk_level = ClassifierBand(score.success_probability)
            ELSE /\ p.prediction_method = "rule-based"
                 /\ p.predicted_success_probability = rule.success_prob
                 /\ p.risk_level = rule.risk_level

\* C2 happens: a hybrid answer whose risk level is the classifier's band at the
\* 0.80 boundary, against a different rule-based level.
C2_Witness ==
    /\ predResp.op = "predict_subject_success"
    /\ predResp.body.prediction_method = "hybrid"
    /\ predResp.body.ml_probability = Rat(4, 5)
    /\ predResp.body.risk_level = "low"
    /\ RuleOf(predResp.student_id, predResp.codes[1]).risk_level # "low"

\* C3: predict_batch answers one entry per input, in input order, each equal to
\* what predict answers for that input alone.
C3_BatchEqualsSingle ==
    mlResp.op = "predict_batch" =>
        /\ Len(mlResp.results) = Len(mlResp.inputs)
        /\ \A i \in 1..Len(mlResp.inputs) :
               mlResp.results[i] = predict(ml_service, mlResp.inputs[i])

\* C4: over a loaded data set, whatever calls came before, a call answers what
\* a service with empty caches answers for the same inputs.
C4_CachesAreTransparent ==
    df.loaded =>
        /\ predResp.op = "predict_subject_success" =>
               predResp.body =
                   predict_subject_success(df, ml_service, cohort_stats, <<>>, <<>>,
                                           predResp.student_id, predResp.codes[1]).pred
        /\ predResp.op = "predict_multiple_subjects" =>
               predResp.body =
                   predict_multiple_subjects(df, ml_service, cohort_stats, <<>>, <<>>,
                                             predResp.student_id, predResp.codes).report

CacheKeys(cache) == {cache[i][1] : i \in 1..Len(cache)}

\* C4 happens: the parsed-record cache is full, has dropped a student the
\* performance cache still holds, and the last call hit its oldest entry.
C4_Witness ==
    /\ df.loaded
    /\ predResp.op = "predict_subject_success"
    /\ Len(student_cache) = CacheLimit
    /\ student_cache[1][1] = predResp.student_id
    /\ CacheKeys(student_perf_cache) \ CacheKeys(student_cache) # {}
    /\ predResp.student_id \in CacheKeys(student_perf_cache)

VariantKeyedOps ==
    {"get_variant_courses", "get_variant_electives", "compute_progress", "what_if"}

\* C5: whatever the variant cache and the elective-response cache hold, a
\* variant-keyed operation called with a key that is not a built variant key
\* answers 404 and never a result, and the elective-response cache never holds
\* an answer under such a key.
C5_UnknownKeyIsNotFound ==
    /\ DOMAIN ELECTIVES_CACHE \subseteq VariantKeys
    /\ (catResp.op \in VariantKeyedOps /\ catResp.key \notin VariantKeys)
           => catResp.status = 404

\* C5 happens: an unknown key is asked for electives while both caches are filled.
C5_Witness ==
    /\ catResp.op = "get_variant_electives"
    /\ catResp.key \notin VariantKeys
    /\ catResp.status = 404
    /\ VARIANTS_CACHE.loaded
    /\ DOMAIN ELECTIVES_CACHE # {}

\* The code of a lookup is unknown: no key of the prerequisite graph, or no
\* key of the cohort statistics.
UnknownToLookup ==
    \/ lookupResp.op = "get_prerequisite_chain" /\ lookupResp.code \notin DOMAIN graph
    \/ lookupResp.op = "get_cohort_stats" /\ lookupResp.code \notin DOMAIN cohort_stats

ServiceState == <<df, cohort_stats, ml_service, student_cache, student_perf_cache, graph>>

\* C6 as stated: a chain lookup or a cohort-statistics lookup for an unknown
\* code answers NotFound and never a result.
C6_UnknownCodeIsNotFoundAsStated == UnknownToLookup => lookupResp.status = 404

\* C6, amended: a cohort-statistics lookup for a code without statistics
\* answers NotFound; a chain lookup for a code that is no key of the
\* prerequisite graph answers a chain whose direct_prerequisites and full_chain
\* are empty; neither lookup changes the service state.
C6_UnknownCodeLookups ==
    /\ [](/\ (lookupResp.op = "get_cohort_stats"
                 /\ lookupResp.code \notin DOMAIN cohort_stats)
               => lookupResp.status = 404
          /\ (lookupResp.op = "get_prerequisite_chain"
                 /\ lookupResp.code \notin DOMAIN graph)
               => /\ lookupResp.status = 200
                  /\ lookupResp.body.direct_prerequisites = <<>>
                  /\ lookupResp.body.full_chain = <<>>)
    /\ [][ServiceState' = ServiceState]_vars

\* C6 happens: a code without statistics is looked up in a service that holds
\* statistics, after a chain lookup for an unknown code was answered.
C6_Witness ==
    /\ df.loaded
    /\ lookupResp.op = "get_cohort_stats"
    /\ lookupResp.code = UnknownCode
    /\ lookupResp.status = 404
    /\ traversal.status = "done"
    /\ traversal.subject_code = UnknownCode

\* C7 as stated: without data set and classifier every prediction has
\* probability 0.7, risk level 'unknown' and no cohort figures.
C7_NeutralDefaultsAsStated ==
    (~df.loaded /\ ~MlUsable(ml_service) /\ predResp.op = "predict_subject_success") =>
        /\ predResp.body.predicted_success_probability = Rat(7, 10)
        /\ predResp.body.risk_level = "unknown"
        /\ predResp.body.cohort_pass_rate = NoneRat
        /\ predResp.body.cohort_avg_score = NoneRat

\* C7, amended: without data set and classifier every prediction has risk
\* level 'unknown' and no cohort figures; its probability is 0.7 for a subject
\* without listed prerequisites and 0.7 x 0.8 for a subject with listed
\* prerequisites, all of which are then missing.
C7_NeutralDefaults ==
    (~df.loaded /\ ~MlUsable(ml_service) /\ predResp.op = "predict_subject_success") =>
        /\ predResp.body.predicted_success_probability =
               (IF predResp.codes[1] \in DOMAIN SUBJECT_PREREQUISITES
                THEN Rat(56, 100) ELSE Rat(7, 10))
        /\ predResp.body.risk_level = "unknown"
        /\ predResp.body.cohort_pass_rate = NoneRat
        /\ predResp.body.cohort_avg_score = NoneRat
        /\ predResp.body.prediction_method = "rule-based"

\* C7 happens: a subject with listed prerequisites is predicted without data
\* set and classifier.
C7_Witness ==
    /\ ~df.loaded
    /\ ~MlUsable(ml_service)
    /\ predResp.op = "predict_subject_success"
    /\ predResp.codes[1] \in DOMAIN SUBJECT_PREREQUISITES
    /\ predResp.body.missing_prereqs # <<>>

\* The classifier cannot score the pair: it is absent or unavailable, it lacks
\* what prepare_features needs, or it rejects the row's NaN.
RowHasNaN(student_id, code) ==
    /\ df.loaded
    /\ \/ \E i \in 1..Len(RecordOf(student_id)) :
              RecordOf(student_id)[i].overall_percentage = NaNPct
       \/ code \in DOMAIN cohort_stats /\ cohort_stats[code].avg_gpa = NoneRat

NoScoreFor(student_id, code) ==
    \/ ~ml_service.imported
    \/ ml_service.model = 0
    \/ ~ml_service.encoders
    \/ ~ml_service.metadata
    \/ ml_service.rejects_nan /\ RowHasNaN(student_id, code)

\* C8: when the classifier is absent, unavailable or gives no score for the
\* request, every prediction of both calls is 'rule-based', carries no
\* ml_probability, ml_confidence or ml_top_factors, and has the rule-based
\* probability and risk level.
C8_DegradesToRuleBased ==
    \A i \in 1..Len(RespPredictions) :
        NoScoreFor(predResp.student_id, predResp.codes[i]) =>
            LET p    == RespPredictions[i]
                rule == RuleOf(predResp.student_id, predResp.codes[i])
            IN  /\ p.prediction_method = "rule-based"
                /\ p.ml_probability = NoneRat
                /\ p.ml_confidence = NoneRat
                /\ p.ml_top_factors = NoFactors
                /\ p.predicted_success_probability = rule.success_prob
                /\ p.risk_level = rule.risk_level

\* C8 happens: a report for a student whose row holds NaN, from a classifier
\* that is loaded and rejects it.
C8_Witness ==
    /\ predResp.op = "predict_multiple_subjects"
    /\ Len(predResp.codes) > 1
    /\ MlUsable(ml_service)
    /\ ml_service.rejects_nan
    /\ RowHasNaN(predResp.student_id, predResp.codes[1])

RECURSIVE EdgeCount(_, _)
\* The number of entries of the prerequisite lists of the codes in S.
EdgeCount(g, S) ==
    IF S = {} THEN 0
    ELSE LET c == CHOOSE x \in S : TRUE
         IN  Len(g[c]) + EdgeCount(g, S \ {c})

\* C9: on every graph, cycles and self-loops included, a started traversal
\* ends, and full_chain never holds more entries than the graph has edges.
C9_ChainTerminatesBounded ==
    /\ (traversal.status = "running") ~> (traversal.status = "done")
    /\ [](Len(traversal.full_chain) <= EdgeCount(graph, DOMAIN graph))

\* C9 happens: a traversal of a graph with a cycle has ended after meeting a
\* code it had visited before.
C9_Witness ==
    /\ traversal.status = "done"
    /\ graph # SUBJECT_PREREQUISITES
    /\ traversal.subject_code \in
           {traversal.full_chain[i].code : i \in 1..Len(traversal.full_chain)}

Severity(level) ==
    CASE level = "low" -> 0 [] level = "medium" -> 1 [] level = "unknown" -> 1
      [] level = "high" -> 2 [] level = "very_high" -> 3

Count(s, x) == Cardinality({i \in 1..Len(s) : s[i] = x})

\* The final risk level the report gives a code.
ReportedRisk(code) ==
    LET preds == predResp.body.predictions
    IN  preds[CHOOSE k \in 1..Len(preds) : preds[k].subject_code = code].risk_level

\* C10: recommended_order is a permutation of the requested codes, never
\* decreasing in the severity low 0, medium 1, unknown 1, high 2, very_high 3
\* of each code's final risk level: every 'low' code precedes every
\* 'very_high' code.
C10_OrderedBySeverity ==
    predResp.op = "predict_multiple_subjects" =>
        LET order == predResp.body.recommended_order
        IN  /\ Len(order) = Len(predResp.codes)
            /\ \A c \in Range(order) \cup Range(predResp.codes) :
                   Count(order, c) = Count(predResp.codes, c)
            /\ \A i, j \in 1..Len(order) :
                   i < j => Severity(ReportedRisk(order[i])) <= Severity(ReportedRisk(order[j]))
            /\ \A i, j \in 1..Len(order) :
                   (ReportedRisk(order[i]) = "low" /\ ReportedRisk(order[j]) = "very_high")
                       => i < j

\* C10 happens: a 'very_high' code was requested ahead of a 'low' code.
C10_Witness ==
    /\ predResp.op = "predict_multiple_subjects"
    /\ \E i, j \in 1..Len(predResp.codes) :
           /\ i < j
           /\ predResp.body.predictions[i].risk_level = "very_high"
           /\ predResp.body.predictions[j].risk_level = "low"

\* The completed sets below a completed set T that the comparison ranges over:
\* T without one of its codes, and every request set contained in T.
SmallerSets(T, key) ==
    {T \ {c} : c \in T} \cup
    {S \in CompletedSets(VARIANTS_CACHE.variants, key) : S \subseteq T}

\* C11: percent_complete never drops when the completed set grows: the
\* percentage answered for a set T is at least the percentage of every set
\* contained in T, codes unknown to the variant included.
C11_PercentMonotone ==
    (catResp.op = "compute_progress" /\ catResp.status = 200) =>
        \A S \in SmallerSets(catResp.body.completed_codes, catResp.key) :
            compute_progress(VARIANTS_CACHE.variants[catResp.key], S).percent_complete
                <= catResp.body.report.percent_complete

\* C11 happens: a progress answer for a set with an unknown code whose
\* percentage is strictly above the percentage of the empty set.
C11_Witness ==
    /\ catResp.op = "compute_progress"
    /\ catResp.status = 200
    /\ "ZZZ9999" \in catResp.body.completed_codes
    /\ compute_progress(VARIANTS_CACHE.variants[catResp.key], {}).percent_complete
           < catResp.body.report.percent_complete

\* C12: compute_progress is idempotent and read-only: every answer for a
\* variant and a completed set is the report computed on the variant as it was
\* built, whatever calls came before, and no call changes a built variant
\* (semesters, elective groups, choice pairs, placeholder lists, courses).
C12_ProgressIsReadOnly ==
    /\ []((catResp.op = "compute_progress" /\ catResp.status = 200) =>
             catResp.body.report =
                 compute_progress(build_variant(catResp.key), catResp.body.completed_codes))
    /\ [][VARIANTS_CACHE.loaded => VARIANTS_CACHE' = VARIANTS_CACHE]_vars

\* C12 happens: a progress answer with outstanding placeholders, given after
\* other routes have read the same catalogue.
C12_Witness ==
    /\ catResp.op = "compute_progress"
    /\ catResp.status = 200
    /\ catResp.body.report.completed_credits > 0
    /\ catResp.body.report.discipline_elective_placeholders_remaining # <<>>
    /\ catResp.key \in DOMAIN ELECTIVES_CACHE

\* The codes of the real options of the elective group named g in variant v.
GroupOptionCodes(v, g) ==
    UNION {Range([j \in 1..Len(v.elective_groups[i].options) |->
                     v.elective_groups[i].options[j].subject_code]) :
              i \in {k \in 1..Len(v.elective_groups) : v.elective_groups[k].group_code = g}}

C18_WitnessCleared ==
    /\ catResp.op = "compute_progress"
    /\ catResp.status = 200
    /\ "D1Y2" \in catResp.body.completed_codes
    /\ "D1Y2" \in Range(VARIANTS_CACHE.variants[catResp.key].discipline_elective_placeholders)
    /\ "D1Y2" \notin Range(catResp.body.report.discipline_elective_placeholders_remaining)

\* The probability a prediction reports, given the rule-based probability
\* `rule`: the rule-based value itself, or its 30% share next to the
\* classifier's score.
ReportedFrom(p, rule) ==
    IF p.prediction_method = "hybrid"
    THEN Clamp01(RAdd(RMul(p.ml_probability, Rat(7, 10)), RMul(rule, Rat(3, 10))))
    ELSE Clamp01(rule)

\* base = 0.2 + (weighted_prereq_gpa / 4.0) x 0.75, blended with the cohort
\* pass rate when one is known.
BlendedBase(p) ==
    LET base == RAdd(Rat(2, 10), RMul(RDiv(p.weighted_prereq_gpa, Rat(4, 1)), Rat(75, 100)))
    IN  IF p.cohort_pass_rate # NoneRat
        THEN RAdd(RMul(base, Rat(7, 10)), RMul(p.cohort_pass_rate, Rat(3, 10)))
        ELSE base

Penalised(p, prob) == IF p.missing_prereqs # <<>> THEN RMul(prob, Rat(8, 10)) ELSE prob

\* C14 as stated: for every target with a defined prerequisite the rule-based
\* probability is the blended base, times 0.8 when a prerequisite is missing,
\* with weighted_prereq_gpa 0.0 when no prerequisite has a numeric grade.
C14_RuleProbabilityAsStated ==
    \A i \in 1..Len(RespPredictions) :
        predResp.codes[i] \in DOMAIN SUBJECT_PREREQUISITES =>
            RespPredictions[i].predicted_success_probability =
                ReportedFrom(RespPredictions[i],
                             Penalised(RespPredictions[i], BlendedBase(RespPredictions[i])))

\* C14, amended: for every target of which the student has a prerequisite with
\* a numeric grade the rule-based probability is the blended base; for a target
\* with defined prerequisites none of which has a numeric grade it is the
\* cohort pass rate if known, else 0.7; either is then multiplied by 0.8 when a
\* prerequisite is missing from the record.
C14_RuleProbability ==
    \A i \in 1..Len(RespPredictions) :
        predResp.codes[i] \in DOMAIN SUBJECT_PREREQUISITES =>
            RespPredictions[i].predicted_success_probability =
                ReportedFrom(RespPredictions[i],
                    Penalised(RespPredictions[i],
                        IF RespPredictions[i].prereq_performance # <<>>
                        THEN BlendedBase(RespPredictions[i])
                        ELSE IF RespPredictions[i].cohort_pass_rate # NoneRat
                             THEN RespPredictions[i].cohort_pass_rate
                             ELSE Rat(7, 10)))

\* C14 happens: a rule-based answer for a target with one prerequisite graded
\* and another missing.
C14_Witness ==
    /\ predResp.op = "predict_subject_success"
    /\ predResp.body.prediction_method = "rule-based"
    /\ predResp.body.prereq_performance # <<>>
    /\ predResp.body.missing_prereqs # <<>>
    /\ predResp.body.weighted_prereq_gpa # Rat(0, 1)

\* The blend happens: a rule-based answer for a target with a graded
\* prerequisite in a cohort with a known pass rate.
C14_WitnessBlended ==
    /\ predResp.op = "predict_subject_success"
    /\ predResp.body.prediction_method = "rule-based"
    /\ predResp.body.prereq_performance # <<>>
    /\ predResp.body.cohort_pass_rate # NoneRat

\* The band of the weighted prerequisite GPA of a prediction, the comparisons
\* being those of the doubles the service holds.
BandOfGpa(p) ==
    IF GpaAtLeast(p, Rat(33, 10)) THEN "low"
    ELSE IF GpaAtLeast(p, Rat(27, 10)) THEN "medium"
    ELSE IF GpaAtLeast(p, Rat(20, 10)) THEN "high"
    ELSE "very_high"

Escalated(band) ==
    IF band = "low" THEN "medium" ELSE IF band = "medium" THEN "high" ELSE band

C15_WitnessComplete ==
    /\ predResp.op = "predict_subject_success"
    /\ predResp.body.prediction_method = "rule-based"
    /\ predResp.body.prereq_performance # <<>>
    /\ predResp.body.missing_prereqs = <<>>
    /\ predResp.body.risk_level \in {"high", "very_high"}

\* C16: without a classifier score, the prediction for a subject that has no
\* defined prerequisites has risk level 'unknown' and the subject's cohort pass
\* rate as probability when one is known, else exactly 0.7, whoever the
\* student is.
C16_NoPrerequisitesDefined ==
    \A i \in 1..Len(RespPredictions) :
        (/\ NoScoreFor(predResp.student_id, predResp.codes[i])
         /\ predResp.codes[i] \notin DOMAIN SUBJECT_PREREQUISITES) =>
            /\ RespPredictions[i].risk_level = "unknown"
            /\ RespPredictions[i].predicted_success_probability =
                   (IF predResp.codes[i] \in DOMAIN cohort_stats
                    THEN cohort_stats[predResp.codes[i]].pass_rate
                    ELSE Rat(7, 10))

\* C16 happens: a subject without defined prerequisites but with cohort
\* statistics is predicted without a classifier score, and the answer is the
\* cohort pass rate.
C16_Witness ==
    /\ predResp.op = "predict_subject_success"
    /\ predResp.codes[1] \notin DOMAIN SUBJECT_PREREQUISITES
    /\ predResp.codes[1] \in DOMAIN cohort_stats
    /\ NoScoreFor(predResp.student_id, predResp.codes[1])
    /\ predResp.body.predicted_success_probability # Rat(7, 10)
    /\ predResp.body.risk_level = "unknown"

\* The default happens: a subject without prerequisites and without cohort
\* statistics, in a service that holds a data set.
C16_WitnessDefault ==
    /\ predResp.op = "predict_subject_success"
    /\ df.loaded
    /\ predResp.codes[1] \notin DOMAIN SUBJECT_PREREQUISITES
    /\ predResp.codes[1] \notin DOMAIN cohort_stats
    /\ NoScoreFor(predResp.student_id, predResp.codes[1])
    /\ predResp.body.predicted_success_probability = Rat(7, 10)

\* The grade points (tenths) the student's record gives for a subject code:
\* those of the last row of that code, or NoPoints without a numeric grade.
NumericGrade(student_id, code) ==
    LET rows == IF df.loaded THEN df.rows[student_id] ELSE <<>>
        hits == {i \in 1..Len(rows) : rows[i].subject_code = code}
    IN  IF hits = {} THEN NoPoints
        ELSE get_grade_points(rows[CHOOSE i \in hits : \A j \in hits : j <= i].grade)

\* Sum of grade_point x weight over sum of weight, taken over the prerequisites
\* of the target that have a numeric grade; 0.0 when there is none.
WeightedGpaOf(student_id, code) ==
    LET prereqs == IF code \in DOMAIN SUBJECT_PREREQUISITES
                   THEN SUBJECT_PREREQUISITES[code] ELSE <<>>
        counted == {i \in 1..Len(prereqs) : NumericGrade(student_id, prereqs[i][1]) # NoPoints}
        score   == SumSeq([i \in 1..Len(prereqs) |->
                              IF i \in counted
                              THEN NumericGrade(student_id, prereqs[i][1]) * prereqs[i][2]
                              ELSE 0])
        weight  == SumSeq([i \in 1..Len(prereqs) |->
                              IF i \in counted THEN prereqs[i][2] ELSE 0])
    IN  IF counted = {} THEN Rat(0, 1) ELSE Rat(score, 10 * weight)

\* C17: weighted_prereq_gpa is the sum of grade_point x weight over the sum of
\* weight, taken over exactly the prerequisites the student has with a numeric
\* grade; missing and ungraded prerequisites are in neither sum, and the value
\* is 0.0 when no prerequisite contributes.
C17_WeightedPrereqGpa ==
    \A i \in 1..Len(RespPredictions) :
        RespPredictions[i].weighted_prereq_gpa
            = WeightedGpaOf(predResp.student_id, predResp.codes[i])

\* C17 happens: of two prerequisites one is graded and the other missing, and
\* the value is the grade points of the graded one.
C17_Witness ==
    /\ predResp.op = "predict_subject_success"
    /\ Len(Prereqs(predResp.codes[1])) = 2
    /\ Len(predResp.body.prereq_performance) = 1
    /\ Len(predResp.body.missing_prereqs) = 1
    /\ predResp.body.weighted_prereq_gpa
           = Tenths(predResp.body.prereq_performance[1].grade_points)
    /\ predResp.body.weighted_prereq_gpa # Rat(0, 1)

\* An ungraded marker happens: a prerequisite taken with 'P' is neither in the
\* sums nor missing.
C17_WitnessUngraded ==
    /\ predResp.op = "predict_subject_success"
    /\ Len(Prereqs(predResp.codes[1])) = 2
    /\ Len(predResp.body.prereq_performance) = 1
    /\ predResp.body.missing_prereqs = <<>>
    /\ NumericGrade(predResp.student_id, "PRG1203") = NoPoints

\* The fraction of the prerequisite-graph entries of a course that are in the
\* completed set; 1 when the course has none.
PrereqRatio(v, code, completed) ==
    LET prereqs == IF code \in DOMAIN v.prerequisite_graph
                   THEN v.prerequisite_graph[code] ELSE <<>>
    IN  IF Len(prereqs) = 0 THEN Rat(1, 1)
        ELSE Rat(Cardinality({i \in 1..Len(prereqs) : prereqs[i] \in completed}),
                 Len(prereqs))

\* 0.30 x ratio + 0.25 x (cgpa/4) + 0.15 x ((trend+1)/2) + 0.15 x (attendance/100)
\* + 0.15 x max(0, 1 - planned_credits/24).
WeightedScore(ratio, m) ==
    LET load == RAdd(Rat(1, 1), RMul(Rat(-1, 24), m.planned_credits))
    IN  RAdd(RAdd(RAdd(RMul(Rat(30, 100), ratio),
                       RMul(Rat(25, 100), RMul(m.cgpa, Rat(1, 4)))),
                  RAdd(RMul(Rat(15, 100), RMul(RAdd(m.gpa_trend, Rat(1, 1)), Rat(1, 2))),
                       RMul(Rat(15, 100), RMul(m.attendance, Rat(1, 100))))),
             RMul(Rat(15, 100), IF RLt(load, Rat(0, 1)) THEN Rat(0, 1) ELSE load))

BandOfScore(score) ==
    IF ~RLt(score, Rat(70, 100)) THEN "low"
    ELSE IF ~RLt(score, Rat(40, 100)) THEN "medium"
    ELSE "high"

\* C19: compute_course_risk takes the band from the weighted score of the
\* prerequisite ratio, cgpa, trend, attendance and planned load: low from 0.70,
\* medium from 0.40, high below; the ratio is 1 for a course without
\* prerequisite entries.
C19_CourseRiskBand ==
    engine.op = "compute_course_risk" =>
        /\ engine.result.factors.prereq_completed_ratio
               = PrereqRatio(engine.programme, engine.args.course.subject_code,
                             engine.args.completed)
        /\ engine.result.predicted_risk
               = BandOfScore(WeightedScore(
                     PrereqRatio(engine.programme, engine.args.course.subject_code,
                                 engine.args.completed),
                     engine.args.student_metrics))

\* C19 happens: a course with half of its prerequisites completed is scored in
\* the medium band.
C19_Witness ==
    /\ engine.op = "compute_course_risk"
    /\ engine.result.factors.prereq_completed_ratio = Rat(1, 2)
    /\ engine.result.predicted_risk = "medium"

\* The outer bands happen: low on the threshold 0.70 and high just under 0.40.
C19_WitnessLowOnThreshold ==
    /\ engine.op = "compute_course_risk"
    /\ engine.result.numeric_score = Rat(70, 100)
    /\ engine.result.predicted_risk = "low"

C19_WitnessHigh ==
    /\ engine.op = "compute_course_risk"
    /\ engine.args.course.subject_code \in DOMAIN engine.programme.prerequisite_graph
    /\ engine.result.predicted_risk = "high"

\* The courses of the listing whose code is among the planned codes.
Resolved(v, planned_codes) ==
    SelectSeq(list_all_courses(v), LAMBDA c : c.subject_code \in Range(planned_codes))

CreditsOf(courses) == SumSeq([i \in 1..Len(courses) |-> courses[i].credit])

\* The arithmetic mean of the reported per-course scores.
MeanScore(per_course) ==
    RMul(RSum([i \in 1..Len(per_course) |-> per_course[i].numeric_score]),
         Rat(1, Len(per_course)))

\* C20: what_if resolves the planned codes against the course listing, reports
\* the sum of the resolved courses' credits as total_credits, scores every
\* resolved course with planned_credits set to that total whatever the caller
\* supplied, leaves the caller's metrics as they were, and reports the mean of
\* the per-course scores (to three decimals) with the band of that mean: low
\* from 0.70, medium from 0.40, high below.
C20_WhatIf ==
    engine.op = "what_if" =>
        LET v        == engine.programme
            resolved == Resolved(v, engine.args.planned_codes)
            total    == CreditsOf(resolved)
            injected == [engine.args.student_metrics EXCEPT !.planned_credits = Rat(total, 1)]
            r        == engine.result
        IN  /\ [i \in 1..Len(r.per_course) |-> r.per_course[i].subject_code]
                   = [i \in 1..Len(resolved) |-> resolved[i].subject_code]
            /\ r.total_credits = total
            /\ \A i \in 1..Len(r.per_course) :
                   r.per_course[i].predicted_risk
                       = BandOfScore(WeightedScore(
                             PrereqRatio(v, resolved[i].subject_code, engine.args.completed),
                             injected))
            /\ engine.args.metrics_after = engine.args.student_metrics
            /\ r.per_course # <<>> =>
                   /\ r.aggregated_risk_score = RoundTo(MeanScore(r.per_course), 1000)
                   /\ r.risk_band = BandOfScore(MeanScore(r.per_course))

\* C20 happens: the caller supplies a planned load other than the credits of
\* the plan, two courses resolve and an unknown code does not, and their scores
\* differ.
C20_Witness ==
    /\ engine.op = "what_if"
    /\ Len(engine.result.per_course) = 2
    /\ Len(engine.args.planned_codes) = 3
    /\ engine.args.student_metrics.planned_credits # Rat(engine.result.total_credits, 1)
    /\ engine.args.student_metrics.planned_credits # Rat(0, 1)
    /\ engine.result.per_course[1].numeric_score # engine.result.per_course[2].numeric_score
    /\ engine.result.per_course[1].predicted_risk # engine.result.per_course[2].predicted_risk

\* Every course a variant refers to: the semesters' required courses in
\* semester order, then the elective groups' options in insertion order.
Referenced(v) ==
    Flatten([i \in 1..Len(v.semesters) |-> v.semesters[i].required_courses]) \o
    Flatten([i \in 1..Len(v.elective_groups) |-> v.elective_groups[i].options])

\* The courses of a sequence whose subject code no earlier course has.
FirstSeen(courses) ==
    SelectSeq([i \in 1..Len(courses) |-> <<i, courses[i]>>],
              LAMBDA e : \A j \in 1..(e[1] - 1) :
                             courses[j].subject_code # e[2].subject_code)

C13_WitnessCredits ==
    /\ catResp.op = "compute_progress"
    /\ catResp.status = 200
    /\ Len(FirstSeen(Referenced(VARIANTS_CACHE.variants[catResp.key])))
           < Len(Referenced(VARIANTS_CACHE.variants[catResp.key]))
    /\ catResp.body.report.total_credits > 0


\* A score lies in [0, 1].
InUnitInterval(x) == RLe(Rat(0, 1), x) /\ RLe(x, Rat(1, 1))

\* C21: every CourseRisk and every WhatIfResult the what-if operation answers
\* carries a numeric score within [0, 1], for every metrics input the request
\* accepts (cgpa, attendance and gpa_trend are unvalidated floats).
C21_ScoresInUnitInterval ==
    (catResp.op = "what_if" /\ catResp.status = 200) =>
        /\ InUnitInterval(catResp.body.result.aggregated_risk_score)
        /\ \A i \in 1..Len(catResp.body.result.per_course) :
               InUnitInterval(catResp.body.result.per_course[i].numeric_score)

\* C22: a ChoicePair is satisfied by a completed set if and only if the set
\* holds at least one of its two option codes (both completed satisfies it, the
\* empty set does not), and either_pairs_remaining lists exactly the variant's
\* unsatisfied pairs, in the variant's order.
C22_EitherPairs ==
    (catResp.op = "compute_progress" /\ catResp.status = 200) =>
        LET v    == VARIANTS_CACHE.variants[catResp.key]
            done == catResp.body.completed_codes
            left == catResp.body.report.either_pairs_remaining
        IN  /\ \A i \in 1..Len(v.choice_pairs) :
                   /\ Len(v.choice_pairs[i]) = 2
                   /\ satisfied(v.choice_pairs[i], done)
                          <=> (v.choice_pairs[i][1] \in done \/ v.choice_pairs[i][2] \in done)
                   /\ v.choice_pairs[i] \in Range(left)
                          <=> (v.choice_pairs[i][1] \notin done /\ v.choice_pairs[i][2] \notin done)
            /\ Range(left) \subseteq Range(v.choice_pairs)
            /\ left = SelectSeq(v.choice_pairs,
                                LAMBDA cp : cp[1] \notin done /\ cp[2] \notin done)
            /\ done = {} => left = v.choice_pairs

\* C22 happens: one option of the first pair is completed and none of the
\* second, so exactly the second pair remains.
C22_Witness ==
    /\ catResp.op = "compute_progress"
    /\ catResp.status = 200
    /\ catResp.body.completed_codes = {"MPU3193"}
    /\ catResp.body.report.either_pairs_remaining = <<<<"MPU3183", "MPU3213">>>>

\* Both options of the first pair are completed: it is satisfied, the second
\* pair remains.
C22_WitnessBoth ==
    /\ catResp.op = "compute_progress"
    /\ catResp.status = 200
    /\ {"MPU3193", "MPU3203"} \subseteq catResp.body.completed_codes
    /\ catResp.body.report.either_pairs_remaining = <<<<"MPU3183", "MPU3213">>>>

\* The empty set leaves both pairs.
C22_WitnessEmpty ==
    /\ catResp.op = "compute_progress"
    /\ catResp.status = 200
    /\ catResp.body.completed_codes = {}
    /\ Len(catResp.body.report.either_pairs_remaining) = 2

\* C23: for every variant, compute_progress over the empty set reports
\* completed_credits = 0 and percent_complete = 0.0, and percent_complete is
\* 0.0, without a division error, for a variant whose total_credits is 0
\* whatever the completed set.
C23_EmptySetAndZeroTotal ==
    engine.op = "compute_progress" =>
        /\ engine.args.completed_codes = {} =>
               /\ engine.result.completed_credits = 0
               /\ engine.result.percent_complete = 0
        /\ engine.result.total_credits = 0 => engine.result.percent_complete = 0

\* C23 happens: the empty set on a variant that has credits ...
C23_Witness ==
    /\ engine.op = "compute_progress"
    /\ engine.args.completed_codes = {}
    /\ engine.result.total_credits > 0
    /\ engine.result.percent_complete = 0

\* ... and a non-empty completed set on a variant whose only courses are
\* placeholders, so that its total is 0.
C23_WitnessZeroTotal ==
    /\ engine.op = "compute_progress"
    /\ engine.args.completed_codes # {}
    /\ engine.programme.semesters # <<>>
    /\ engine.result.total_credits = 0
    /\ engine.result.percent_complete = 0

\* The built variants start at zero too: every progress answer of the
\* catalogue route for the empty set.
C23_BuiltVariantsStartAtZero ==
    (catResp.op = "compute_progress" /\ catResp.status = 200
         /\ catResp.body.completed_codes = {}) =>
        /\ catResp.body.report.completed_credits = 0
        /\ catResp.body.report.percent_complete = 0
        /\ catResp.body.report.total_credits > 0

\* The prerequisite codes of a target, those a prediction lists with a grade
\* and those it lists as missing.
PrereqCodes(code) == {Prereqs(code)[i][1] : i \in 1..Len(Prereqs(code))}
PerformanceCodes(p) ==
    {p.prereq_performance[i].subject_code : i \in 1..Len(p.prereq_performance)}
MissingCodes(p) == Range(p.missing_prereqs)

\* The student has a row for the code in the loaded data set.
Taken(student_id, code) ==
    df.loaded /\ \E i \in 1..Len(df.rows[student_id]) :
                     df.rows[student_id][i].subject_code = code

\* C26 as stated: the prediction splits the target's prerequisite list into two
\* disjoint parts that together cover it: every prerequisite code is either in
\* prereq_performance or in missing_prereqs, and never in both.
C26_PrerequisitesSplitAsStated ==
    \A i \in 1..Len(RespPredictions) :
        /\ PerformanceCodes(RespPredictions[i]) \cup MissingCodes(RespPredictions[i])
               = PrereqCodes(predResp.codes[i])
        /\ PerformanceCodes(RespPredictions[i]) \cap MissingCodes(RespPredictions[i]) = {}

\* C26: the prediction splits the target's prerequisite list into two disjoint
\* parts: prereq_performance holds exactly the prerequisites present in the
\* student's record with a numeric grade, missing_prereqs exactly those absent
\* from the record, each once and in the order of the prerequisite list; a
\* prerequisite present in the record without a numeric grade is in neither.
C26_PrerequisitesSplit ==
    \A i \in 1..Len(RespPredictions) :
        LET p  == RespPredictions[i]
            id == predResp.student_id
            pr == Prereqs(predResp.codes[i])
            Code(e) == e[1]
            Graded(e) == NumericGrade(id, e[1]) # NoPoints
            Absent(e) == ~Taken(id, e[1])
        IN  /\ PerformanceCodes(p) \cap MissingCodes(p) = {}
            /\ [k \in 1..Len(p.prereq_performance) |-> p.prereq_performance[k].subject_code]
                   = Map(Filter(pr, Graded), Code)
            /\ p.missing_prereqs = Map(Filter(pr, Absent), Code)
            /\ \A c \in PrereqCodes(predResp.codes[i]) :
                   (Taken(id, c) /\ NumericGrade(id, c) = NoPoints)
                       => c \notin PerformanceCodes(p) \cup MissingCodes(p)

\* C26 happens: of two prerequisites one is graded and the other absent from
\* the record.
C26_Witness ==
    /\ predResp.op = "predict_subject_success"
    /\ df.loaded
    /\ Len(Prereqs(predResp.codes[1])) = 2
    /\ Len(predResp.body.prereq_performance) = 1
    /\ Len(predResp.body.missing_prereqs) = 1

\* A prerequisite taken with an ungraded marker is in neither list.
C26_WitnessUngraded ==
    /\ predResp.op = "predict_subject_success"
    /\ Taken(predResp.student_id, "PRG1203")
    /\ NumericGrade(predResp.student_id, "PRG1203") = NoPoints
    /\ "PRG1203" \in PrereqCodes(predResp.codes[1])
    /\ "PRG1203" \notin PerformanceCodes(predResp.body) \cup MissingCodes(predResp.body)

\* Two consecutive what-if answers for the same variant, planned codes and
\* metrics.
SameWhatIfRequest ==
    /\ catResp.op = "what_if" /\ catResp.status = 200
    /\ catResp'.op = "what_if" /\ catResp'.status = 200
    /\ catResp'.key = catResp.key
    /\ catResp'.body.metrics = catResp.body.metrics
    /\ catResp'.body.result.selected_subject_codes
           = catResp.body.result.selected_subject_codes

\* C30: every variant load_bcs_variants builds has an empty prerequisite graph,
\* so a what-if answer does not depend on the completed set: every
\* prerequisite-completion ratio is 1.0, and two what-if requests that differ in
\* the completed set only are answered with the same per-course scores, bands
\* and aggregate.
C30_CompletedSetIsIrrelevant ==
    /\ [](VARIANTS_CACHE.loaded =>
             \A key \in DOMAIN VARIANTS_CACHE.variants :
                 VARIANTS_CACHE.variants[key].prerequisite_graph = <<>>)
    /\ []((catResp.op = "what_if" /\ catResp.status = 200) =>
             \A i \in 1..Len(catResp.body.result.per_course) :
                 catResp.body.result.per_course[i].factors.prereq_completed_ratio
                     = Rat(1, 1))
    /\ [][SameWhatIfRequest => catResp'.body.result = catResp.body.result]_vars

\* C30 happens: a what-if answer with scored courses for a completed set that
\* is not empty.
C30_Witness ==
    /\ catResp.op = "what_if"
    /\ catResp.status = 200
    /\ catResp.body.completed_codes # {}
    /\ Len(catResp.body.result.per_course) = 3

\* C27: on every prerequisite graph get_prerequisite_chain respects the depth
\* cap of 5: no entry of full_chain is annotated with a depth greater than 5,
\* and direct_prerequisites holds exactly the target's own graph entries
\* (depth 1) with their weights.
C27_DepthCap ==
    /\ \A i \in 1..Len(traversal.full_chain) : traversal.full_chain[i].depth <= MaxDepth
    /\ lookupResp.op = "get_prerequisite_chain" =>
           /\ \A i \in 1..Len(lookupResp.body.full_chain) :
                  lookupResp.body.full_chain[i].depth <= MaxDepth
           /\ lookupResp.body.direct_prerequisites
                  = [i \in 1..Len(GraphPrereqs(graph, lookupResp.code)) |->
                        [code   |-> GraphPrereqs(graph, lookupResp.code)[i][1],
                         weight |-> GraphPrereqs(graph, lookupResp.code)[i][2]]]

\* The part of C27 about direct_prerequisites, on its own.
C27_DirectPrerequisites ==
    lookupResp.op = "get_prerequisite_chain" =>
        /\ lookupResp.body.direct_prerequisites
               = [i \in 1..Len(GraphPrereqs(graph, lookupResp.code)) |->
                     [code   |-> GraphPrereqs(graph, lookupResp.code)[i][1],
                      weight |-> GraphPrereqs(graph, lookupResp.code)[i][2]]]
        /\ \A i \in 1..Len(lookupResp.body.full_chain) :
               lookupResp.body.full_chain[i].depth <= MaxDepth + 1

\* C28: full_chain is a set of transitive prerequisites: on every graph, the
\* shipped SUBJECT_PREREQUISITES included, each prerequisite code appears in
\* full_chain at most once.
C28_ChainHasNoRepeats ==
    lookupResp.op = "get_prerequisite_chain" =>
        \A i, j \in 1..Len(lookupResp.body.full_chain) :
            lookupResp.body.full_chain[i].code = lookupResp.body.full_chain[j].code
                => i = j

\* On the shipped table alone.
C28_ShippedChainHasNoRepeats ==
    (lookupResp.op = "get_prerequisite_chain" /\ graph = SUBJECT_PREREQUISITES) =>
        \A i, j \in 1..Len(lookupResp.body.full_chain) :
            lookupResp.body.full_chain[i].code = lookupResp.body.full_chain[j].code
                => i = j

\* One call's effect on a cache of the prediction service: nothing, or a miss
\* of the requested student: when the cache held CacheLimit entries exactly the
\* CacheDrop earliest-inserted ones are gone, the others keep their order, and
\* the requested student's entry is the newest.
CacheStep(cache, next) ==
    \/ next = cache
    \/ /\ ~CacheHas(cache, predResp'.student_id)
       /\ next # <<>>
       /\ next[Len(next)][1] = predResp'.student_id
       /\ SubSeq(next, 1, Len(next) - 1)
              = IF Len(cache) = CacheLimit
                THEN SubSeq(cache, CacheDrop + 1, Len(cache))
                ELSE cache

C25_WitnessPerformance ==
    /\ Len(student_perf_cache) = CacheLimit
    /\ student_perf_cache[Len(student_perf_cache)][1] = predResp.student_id
    /\ CacheKeys(student_cache) \ CacheKeys(student_perf_cache) # {}

C29_WitnessRuleBased ==
    /\ predResp.op = "predict_multiple_subjects"
    /\ Len(predResp.codes) = 4
    /\ df.loaded
    /\ \A i \in 1..4 : predResp.body.predictions[i].prediction_method = "rule-based"
    /\ predResp.body.predictions[1].risk_level # predResp.body.predictions[3].risk_level

\* A batch on a classifier that raises on the student's features: the batch
\* call fails as a whole and so does every single call.
C29_WitnessFailedBatch ==
    /\ predResp.op = "predict_multiple_subjects"
    /\ predResp.codes # <<>>
    /\ MlUsable(ml_service)
    /\ ml_service.rejects_nan
    /\ \A i \in 1..Len(predResp.codes) :
           predResp.body.predictions[i].prediction_method = "rule-based"

\* The requests whose handler has returned, and those whose get_variants call
\* ran load_bcs_variants.
Returned == {r \in Requests : tasks[r].pc = "done"}
Builders == {r \in Returned : tasks[r].built}

\* C24: the variant catalogue is built at most once per process: for every
\* interleaving of requests, several first requests accepted before any
\* handler has run included, load_bcs_variants runs at most once, and every
\* get_variants call returns the variants of that one build, which stay in the
\* cache unchanged.
C24_BuiltAtMostOnce ==
    /\ [](/\ Cardinality(Builders) <= 1
          /\ Returned # {} => (VARIANTS_CACHE.loaded /\ Cardinality(Builders) = 1)
          /\ \A r \in Returned : tasks[r].variants = VARIANTS_CACHE.variants)
    /\ [][VARIANTS_CACHE.loaded => VARIANTS_CACHE' = VARIANTS_CACHE]_vars

\* C24 happens: three requests were accepted before any catalogue was built,
\* all three have returned, and one of them built it.
C24_Witness ==
    /\ Returned = Requests
    /\ \A r \in Requests : tasks[r].cold
    /\ Cardinality(Builders) = 1
    /\ \E r \in Requests : tasks[r].status = 404
    /\ \E r \in Requests : tasks[r].status = 200
====
